---- MODULE Spec2Model ----
(***************************************************************************)
(* Model of the geocoding integration layer of ChurchDirectoryMap          *)
(* (src/churches/services.py): GeocodingService.geocode_address with its   *)
(* cache, its retry loop and its response parser, and the two clients of   *)
(* the same shape, ReverseGeocodingService.reverse_geocode and             *)
(* DirectionsService.get_directions, over the same cache.                  *)
(*                                                                         *)
(* A call is modelled step by step: one step for the entry of the method   *)
(* (argument checks and the cache lookup), then one step for every         *)
(* iteration of the retry loop (the request, the handling of its outcome,  *)
(* the sleep and the decision to go on, to break or to return).            *)
(*                                                                         *)
(* Strings are sequences of one-character strings, so that strip() and     *)
(* lower() are computed, not assumed.  Coordinates are whole degrees and   *)
(* confidences are hundredths.  The md5 digest of the cache key is         *)
(* modelled by the digested text itself (no collisions).                   *)
(***************************************************************************)
EXTENDS Integers, Sequences, FiniteSets, TLC

\* ------------------------------------------------------------------ bounds
\* largest value of the retries argument a caller passes
MaxRetriesArg == 2

\* ------------------------------------------------------- program constants
DEFAULT_RETRIES == 3
DEFAULT_RETRY_DELAY == 1

\* ----------------------------------------------------------------- strings
\* str.strip(): drop leading and trailing white space
RECURSIVE LStrip(_)
LStrip(s) == IF s = <<>> THEN <<>>
             ELSE IF Head(s) = " " THEN LStrip(Tail(s)) ELSE s

RECURSIVE RStrip(_)
RStrip(s) == IF s = <<>> THEN <<>>
             ELSE IF s[Len(s)] = " " THEN RStrip(SubSeq(s, 1, Len(s) - 1)) ELSE s

Strip(s) == RStrip(LStrip(s))

LowerChar(ch) == CASE ch = "A" -> "a"
                   [] ch = "B" -> "b"
                   [] ch = "C" -> "c"
                   [] ch = "H" -> "h"
                   [] ch = "M" -> "m"
                   [] ch = "N" -> "n"
                   [] ch = "O" -> "o"
                   [] ch = "S" -> "s"
                   [] ch = "T" -> "t"
                   [] ch = "U" -> "u"
                   [] OTHER -> ch

\* str.lower()
Lower(s) == [i \in 1..Len(s) |-> LowerChar(s[i])]

\* ------------------------------------------------------------------ inputs
\* addresses a caller passes: "", " ", "A", " a "
Addresses == { <<>>, <<" ">>, <<"A">>, <<" ", "a", " ">> }

\* country codes a caller passes: "US", "us"
Countries == { <<"U", "S">>, <<"u", "s">> }

\* the retries argument: not given (None) or an integer
RetriesNone == [given |-> FALSE, value |-> 0]
RetriesArgs == {RetriesNone} \cup { [given |-> TRUE, value |-> n] : n \in 0..MaxRetriesArg }

Callers == {"c1"}

\* ------------------------------------------------------ provider responses
\* dict.get(key, default) on the properties of a feature
PropGet(props, key, default) == IF key \in props.has THEN props[key] ELSE default

AllProps == [has |-> {"label", "confidence", "layer"},
             label |-> <<"L">>, confidence |-> 90, layer |-> "address"]
NoProps == [has |-> {}, label |-> <<>>, confidence |-> 0, layer |-> ""]

\* features of a response: coordinates are [longitude, latitude, ...]
F_ok == [coords |-> <<-74, 40>>, numeric |-> TRUE, props |-> AllProps]
F_edge == [coords |-> <<-180, 90, 5>>, numeric |-> TRUE, props |-> NoProps]
F_short == [coords |-> <<10>>, numeric |-> TRUE, props |-> AllProps]
F_badlat == [coords |-> <<100, 91>>, numeric |-> TRUE, props |-> AllProps]
F_badlon == [coords |-> <<181, 45>>, numeric |-> TRUE, props |-> AllProps]
F_text == [coords |-> <<0, 0>>, numeric |-> FALSE, props |-> AllProps]

\* bodies of a 2xx response: text that is not JSON, JSON that is not an
\* object (null, a list), or an object with a list of features
NotJson == [kind |-> "notjson", features |-> <<>>]
NonObject == [kind |-> "nonobject", features |-> <<>>]
Object(fs) == [kind |-> "object", features |-> fs]

Bodies == { NotJson, NonObject, Object(<<>>), Object(<<F_ok>>), Object(<<F_edge>>),
            Object(<<F_ok, F_badlat>>), Object(<<F_badlat, F_ok>>),
            Object(<<F_short>>), Object(<<F_badlon>>), Object(<<F_text>>) }

\* routes of a directions response
R_full == [has |-> {"summary", "geometry", "segments"},
           distance |-> 1200, duration |-> 300, geometry |-> "enc", steps |-> <<"s1", "s2">>]
R_bare == [has |-> {}, distance |-> 0, duration |-> 0, geometry |-> "", steps |-> <<>>]

Routes(rs) == [kind |-> "object", routes |-> rs]

DirectionsBodies == { [kind |-> "notjson", routes |-> <<>>], [kind |-> "nonobject", routes |-> <<>>],
                      Routes(<<>>), Routes(<<R_full, R_bare>>), Routes(<<R_bare>>) }

\* what session.get + raise_for_status + json produce in one attempt.
\*   kind "timeout": requests.exceptions.Timeout
\*   kind "request": another requests.exceptions.RequestException
\*   kind "http":    raise_for_status raised HTTPError; resp tells what the
\*                   exception's response attribute is: "response" for a
\*                   requests.Response, "mock" for the test double of
\*                   tests.py, "none" for an HTTPError built without one
\*   kind "ok":      a 2xx response with the given body
Outcome(k, st, r, b) == [kind |-> k, status |-> st, resp |-> r, body |-> b]
NoOutcome == Outcome("none", 0, "none", NotJson)

HttpStatuses == {404, 429, 500}

Outcomes == { Outcome("timeout", 0, "none", NotJson), Outcome("request", 0, "none", NotJson),
              Outcome("http", 404, "none", NotJson) }
            \cup { Outcome("http", st, r, NotJson) : st \in HttpStatuses, r \in {"response", "mock"} }
            \cup { Outcome("ok", 200, "response", b) : b \in Bodies }

FailedOutcomes == { o \in Outcomes : o.kind # "ok" }

DirectionsOutcomes == FailedOutcomes
                      \cup { Outcome("ok", 200, "response", b) : b \in DirectionsBodies }

\* arguments of reverse_geocode, as <<latitude, longitude>>
ReversePoints == { <<40, -74>>, <<91, 0>>, <<0, -181>> }

\* arguments of get_directions, each as <<longitude, latitude>>
StartPoints == { <<-74, 40>>, <<-181, 40>> }
EndPoints == { <<-118, 34>>, <<0, 91>> }
Profiles == { "driving-car" }

\* bool(e.response): requests.Response.__bool__ returns self.ok, which is
\* False for every status raise_for_status raises on; a Mock is truthy;
\* None is falsy
ResponseTruthy(o) == CASE o.resp = "mock" -> TRUE
                       [] o.resp = "response" -> o.status < 400
                       [] OTHER -> FALSE

\* -------------------------------------------------------------- results
NoResult == [none |-> TRUE]
NoEntry == [none |-> TRUE]

Failure(msg) == [success |-> FALSE, error |-> msg]

\* f"Geocoding failed after {retries + 1} attempts: {last_error}", and the
\* same with "Reverse geocoding" and "Directions"
FailedAfterText(op) == CASE op = "reverse" -> "Reverse geocoding failed after attempts"
                         [] op = "directions" -> "Directions failed after attempts"
                         [] OTHER -> "Geocoding failed after attempts"

AllAttemptsFailed(op, retries, lastError) ==
    [success |-> FALSE, error |-> FailedAfterText(op),
     attempts |-> retries + 1, cause |-> lastError]

IsResult(r) == "success" \in DOMAIN r

\* ---------------------------------------------------------------- parser
LayerLower(l) == CASE l = "Address" -> "address"
                   [] l = "Venue" -> "venue"
                   [] l = "Street" -> "street"
                   [] OTHER -> l

\* confidences are hundredths: 0.8 is 80, 0.5 is 50
\* the classifier with the medium test before the high test
DetermineAccuracy_MediumFirst(props) ==
    LET confidence == PropGet(props, "confidence", 0)
        layer == LayerLower(PropGet(props, "layer", ""))
    IN  IF layer = "street" \/ confidence >= 50 THEN "medium"
        ELSE IF layer \in {"address", "venue"} /\ confidence >= 80 THEN "high"
        ELSE "low"

DetermineAccuracy(props) ==
    LET confidence == PropGet(props, "confidence", 0)
        layer == LayerLower(PropGet(props, "layer", ""))
    IN  IF layer \in {"address", "venue"} /\ confidence >= 80 THEN "high"
        ELSE IF layer = "street" \/ confidence >= 50 THEN "medium"
        ELSE "low"

\* data.get on a value that is not a dict raises AttributeError, which the
\* parser's except clause (KeyError, IndexError, TypeError, ValueError) and
\* the except clauses of geocode_address all let through
ParseRaises(data) == data.kind = "nonobject"

\* the parser that clamps a coordinate into its range instead of failing
ParseGeocodingResponse_Clamped(data, original_address) ==
    LET features == data.features
        Clamp(x, lo, hi) == IF x < lo THEN lo ELSE IF x > hi THEN hi ELSE x
    IN  IF features = <<>> THEN Failure("No results found for address")
        ELSE
          LET feature == features[1]
              coordinates == feature.coords
          IN  IF Len(coordinates) < 2 THEN Failure("Invalid coordinates in response")
              ELSE IF ~feature.numeric THEN Failure("Error parsing geocoding response")
              ELSE [success |-> TRUE,
                    latitude |-> Clamp(coordinates[2], -90, 90),
                    longitude |-> Clamp(coordinates[1], -180, 180),
                    accuracy |-> DetermineAccuracy(feature.props),
                    formatted_address |-> PropGet(feature.props, "label", original_address),
                    confidence |-> PropGet(feature.props, "confidence", 0),
                    layer |-> PropGet(feature.props, "layer", "unknown")]

ParseGeocodingResponse(data, original_address) ==
    LET features == data.features
    IN  IF features = <<>> THEN Failure("No results found for address")
        ELSE
          LET feature == features[1]
              coordinates == feature.coords
              longitude == coordinates[1]
              latitude == coordinates[2]
          IN  IF Len(coordinates) < 2 THEN Failure("Invalid coordinates in response")
              ELSE IF ~feature.numeric THEN Failure("Error parsing geocoding response")
              ELSE IF ~(-90 <= latitude /\ latitude <= 90) \/ ~(-180 <= longitude /\ longitude <= 180)
                   THEN Failure("Invalid coordinate ranges")
              ELSE [success |-> TRUE,
                    latitude |-> latitude,
                    longitude |-> longitude,
                    accuracy |-> DetermineAccuracy(feature.props),
                    formatted_address |-> PropGet(feature.props, "label", original_address),
                    confidence |-> PropGet(feature.props, "confidence", 0),
                    layer |-> PropGet(feature.props, "layer", "unknown")]

ParseReverseGeocodingResponse(data) ==
    LET features == data.features
    IN  IF features = <<>> THEN Failure("No address found for coordinates")
        ELSE
          LET properties == features[1].props
          IN  [success |-> TRUE,
               address |-> PropGet(properties, "label", <<"n", "/", "a">>),
               components |-> [house_number |-> PropGet(properties, "housenumber", ""),
                               street |-> PropGet(properties, "street", ""),
                               locality |-> PropGet(properties, "locality", ""),
                               region |-> PropGet(properties, "region", ""),
                               country |-> PropGet(properties, "country", ""),
                               postal_code |-> PropGet(properties, "postalcode", ""),
                               confidence |-> PropGet(properties, "confidence", 0),
                               layer |-> PropGet(properties, "layer", "unknown")],
               confidence |-> PropGet(properties, "confidence", 0)]

ParseDirectionsResponse(data) ==
    LET routes == data.routes
    IN  IF routes = <<>> THEN Failure("No routes found")
        ELSE
          LET route == routes[1]
          IN  [success |-> TRUE,
               routes |-> routes,
               distance |-> IF "summary" \in route.has THEN route.distance ELSE 0,
               duration |-> IF "summary" \in route.has THEN route.duration ELSE 0,
               geometry |-> PropGet(route, "geometry", ""),
               instructions |-> IF "segments" \in route.has THEN route.steps ELSE <<>>]

\* ----------------------------------------------------------------- cache
\* f"{address.lower().strip()}:{country.lower()}" under the prefix "geocoding:"
GetCacheKey(address, country) == <<"geocoding", Strip(Lower(address)), Lower(country)>>

\* f"{latitude:.6f},{longitude:.6f}" under the prefix "reverse_geocoding:";
\* whole degrees print exactly
ReverseCacheKey(latitude, longitude) == <<"reverse_geocoding", latitude, longitude>>

\* start, end and profile under the prefix "directions:"
DirectionsCacheKey(start, end, profile) == <<"directions", start, end, profile>>

CacheKeys == { GetCacheKey(a, c) : a \in Addresses, c \in Countries }
             \cup { ReverseCacheKey(p[1], p[2]) : p \in ReversePoints }
             \cup { DirectionsCacheKey(a, b, pr) : a \in StartPoints, b \in EndPoints, pr \in Profiles }

\* --------------------------------------------------------------- records
\* rows the Church table can hold
MaxRecords == 2
Ids == 1..MaxRecords

NoRecord == [none |-> TRUE]

\* None in a nullable field
Null == [null |-> TRUE]

\* Decimal('0.0000001'): coordinates are counted in units of 1e-7 degree
Degree == 10000000

\* a Decimal with seven decimal places: units * 1e-7 degrees
Dec(units) == [units |-> units]

\* a float with eight decimal places, as a geocoder returns it:
\* sign * (units + eighth / 10) * 1e-7 degrees
Float(sign, units, eighth) == [sign |-> sign, units |-> units, eighth |-> eighth]

\* -limit <= float(x) <= limit
FloatInRange(x, limit) ==
    x.units < limit * Degree \/ (x.units = limit * Degree /\ x.eighth = 0)

\* the conversion that drops the eighth decimal
Quantize_Truncate(x) == Dec(x.sign * x.units)

\* Decimal(str(x)).quantize(Decimal('0.0000001')): rounds half to even
Quantize(x) ==
    LET up == x.eighth > 5 \/ (x.eighth = 5 /\ x.units % 2 = 1)
    IN  Dec(x.sign * (x.units + (IF up THEN 1 ELSE 0)))

\* the tiers of geocoding_accuracy
AccuracyChoices == {"high", "medium", "low"}

\* a Church instance; pk 0 is an instance that was never saved
Church(pk, name, street, city, state, zip, phone, website, email, times, active, lat, lon, accuracy) ==
    [pk |-> pk, name |-> name, street_address |-> street, city |-> city, state |-> state,
     zip_code |-> zip, phone |-> phone, website |-> website, email |-> email,
     service_times |-> times, is_active |-> active,
     latitude |-> lat, longitude |-> lon, geocoding_accuracy |-> accuracy]

\* Church.coordinates is not None
HasCoordinates(church) == church.latitude # Null /\ church.longitude # Null

\* ", ".join(part.strip() for part in address_parts if part.strip())
RECURSIVE Join(_)
Join(parts) ==
    IF parts = <<>> THEN <<>>
    ELSE IF Len(parts) = 1 THEN parts[1]
    ELSE parts[1] \o <<",", " ">> \o Join(Tail(parts))

FullAddress(church) ==
    LET address_parts == <<church.street_address, church.city, church.state>>
                         \o (IF church.zip_code # <<>> THEN <<church.zip_code>> ELSE <<>>)
        stripped == [i \in 1..Len(address_parts) |-> Strip(address_parts[i])]
    IN  Join(SelectSeq(stripped, LAMBDA part : part # <<>>))

\* validation that accepts a lone latitude or longitude
FullClean_NoPairCheck(church) ==
    /\ church.latitude # Null =>
          -90 * Degree <= church.latitude.units /\ church.latitude.units <= 90 * Degree
    /\ church.longitude # Null =>
          -180 * Degree <= church.longitude.units /\ church.longitude.units <= 180 * Degree
    /\ Strip(church.name) # <<>>
    /\ Strip(church.street_address) # <<>>
    /\ Strip(church.city) # <<>>
    /\ Strip(church.state) # <<>>
    /\ Len(church.zip_code) <= 10
    /\ church.geocoding_accuracy \in AccuracyChoices

\* full_clean(): the field validators (max_length of zip_code, choices of
\* geocoding_accuracy) and Church.clean(); TRUE when no ValidationError
FullClean(church) ==
    /\ (church.latitude = Null) = (church.longitude = Null)
    /\ church.latitude # Null =>
          -90 * Degree <= church.latitude.units /\ church.latitude.units <= 90 * Degree
    /\ church.longitude # Null =>
          -180 * Degree <= church.longitude.units /\ church.longitude.units <= 180 * Degree
    /\ Strip(church.name) # <<>>
    /\ Strip(church.street_address) # <<>>
    /\ Strip(church.city) # <<>>
    /\ Strip(church.state) # <<>>
    /\ Len(church.zip_code) <= 10
    /\ church.geocoding_accuracy \in AccuracyChoices

\* rows of the table
Stored(d) == { i \in Ids : d[i] # NoRecord }

\* the outcome of church.save() on table d: the table afterwards, the
\* instance afterwards (an insert gives it the next id), whether
\* ValidationError was raised, and whether the insert found the table full
Save(d, church) ==
    IF ~FullClean(church)
    THEN [db |-> d, church |-> church, error |-> TRUE, full |-> FALSE]
    ELSE IF church.pk # 0
    THEN [db |-> [d EXCEPT ![church.pk] = church], church |-> church,
          error |-> FALSE, full |-> FALSE]
    ELSE IF Cardinality(Stored(d)) = MaxRecords
    THEN [db |-> d, church |-> church, error |-> FALSE, full |-> TRUE]
    ELSE LET id == Cardinality(Stored(d)) + 1
             saved == [church EXCEPT !.pk = id]
         IN  [db |-> [d EXCEPT ![id] = saved], church |-> saved,
              error |-> FALSE, full |-> FALSE]

\* the outcome of church.set_coordinates(latitude, longitude, accuracy):
\* the instance afterwards and whether ValueError was raised
SetCoordinates(church, latitude, longitude, accuracy) ==
    IF ~FloatInRange(latitude, 90) \/ ~FloatInRange(longitude, 180)
       \/ accuracy \notin AccuracyChoices
    THEN [church |-> church, error |-> TRUE]
    ELSE [church |-> [church EXCEPT !.latitude = Quantize(latitude),
                                    !.longitude = Quantize(longitude),
                                    !.geocoding_accuracy = accuracy],
          error |-> FALSE]

\* what self.geocoding_service.geocode_address(church.full_address) gives
\* geocode_church: a successful result, a failure, or an exception (the
\* AttributeError geocode_address lets through); G_out comes from an
\* injected geocoding service that does no range check of its own
GeoSuccess(latitude, longitude, accuracy) ==
    [success |-> TRUE, latitude |-> latitude, longitude |-> longitude, accuracy |-> accuracy]
GeoRaise == [raised |-> TRUE]

G_high == GeoSuccess(Float(1, 40 * Degree, 5), Float(-1, 83 * Degree + 1, 5), "high")
G_edge == GeoSuccess(Float(1, 90 * Degree, 0), Float(-1, 180 * Degree, 0), "low")
G_out == GeoSuccess(Float(1, 90 * Degree, 1), Float(1, 10 * Degree, 0), "medium")
G_fail == Failure("No results found for address")

GeoResults == { G_high, G_edge, G_out, G_fail, GeoRaise }

\* the answers drawn for the calls of a batch
BatchGeoResults == { G_high, G_fail, GeoRaise }

\* geocode_church that geocodes whether or not the church has coordinates
GeocodeChurchOn_NoSkip(d, church, force_update, g) ==
    LET Report(calls, set, saved) ==
            IF g = GeoRaise
            THEN [db |-> d, church |-> church, calls |-> calls, raised |-> TRUE, result |-> NoResult]
            ELSE IF ~g.success
            THEN [db |-> d, church |-> church, calls |-> calls, raised |-> FALSE,
                  result |-> [success |-> FALSE, message |-> "Geocoding failed", error |-> g.error]]
            ELSE IF set.error
            THEN [db |-> d, church |-> church, calls |-> calls, raised |-> FALSE,
                  result |-> [success |-> FALSE, message |-> "Error saving coordinates",
                              error |-> "ValueError"]]
            ELSE IF saved.error
            THEN [db |-> d, church |-> set.church, calls |-> calls, raised |-> FALSE,
                  result |-> [success |-> FALSE, message |-> "Error saving coordinates",
                              error |-> "ValidationError"]]
            ELSE [db |-> saved.db, church |-> saved.church, calls |-> calls, raised |-> FALSE,
                  result |-> [success |-> TRUE, message |-> "Successfully geocoded",
                              latitude |-> g.latitude, longitude |-> g.longitude,
                              accuracy |-> g.accuracy]]
        Geocoded(calls, set) == Report(calls, set, Save(d, set.church))
    IN  Geocoded(<< [pk |-> church.pk, address |-> FullAddress(church)] >>,
                 SetCoordinates(church, g.latitude, g.longitude, g.accuracy))

\* geocode_church(church, force_update) on table d when the geocoder, if
\* called, answers g: the table and the instance afterwards, the geocoder
\* calls made, whether an exception left the call, and the result
GeocodeChurchOn(d, church, force_update, g) ==
    LET Report(calls, set, saved) ==
            IF g = GeoRaise
            THEN [db |-> d, church |-> church, calls |-> calls, raised |-> TRUE, result |-> NoResult]
            ELSE IF ~g.success
            THEN [db |-> d, church |-> church, calls |-> calls, raised |-> FALSE,
                  result |-> [success |-> FALSE, message |-> "Geocoding failed", error |-> g.error]]
            ELSE IF set.error
            THEN [db |-> d, church |-> church, calls |-> calls, raised |-> FALSE,
                  result |-> [success |-> FALSE, message |-> "Error saving coordinates",
                              error |-> "ValueError"]]
            ELSE IF saved.error
            THEN [db |-> d, church |-> set.church, calls |-> calls, raised |-> FALSE,
                  result |-> [success |-> FALSE, message |-> "Error saving coordinates",
                              error |-> "ValidationError"]]
            ELSE [db |-> saved.db, church |-> saved.church, calls |-> calls, raised |-> FALSE,
                  result |-> [success |-> TRUE, message |-> "Successfully geocoded",
                              latitude |-> g.latitude, longitude |-> g.longitude,
                              accuracy |-> g.accuracy]]
        Geocoded(calls, set) == Report(calls, set, Save(d, set.church))
    IN  IF HasCoordinates(church) /\ ~force_update
        THEN [db |-> d, church |-> church, calls |-> <<>>, raised |-> FALSE,
              result |-> [success |-> TRUE, message |-> "Church already has coordinates",
                          skipped |-> TRUE]]
        ELSE Geocoded(<< [pk |-> church.pk, address |-> FullAddress(church)] >>,
                      SetCoordinates(church, g.latitude, g.longitude, g.accuracy))

\* result.get('skipped')
Skipped(result) == "skipped" \in DOMAIN result /\ result.skipped

\* Church.objects.filter(is_active=True), with latitude__isnull=True and
\* longitude__isnull=True unless force_update
Selection(d, force_update) ==
    IF force_update THEN { i \in Stored(d) : d[i].is_active }
    ELSE { i \in Stored(d) : d[i].is_active /\ d[i].latitude = Null /\ d[i].longitude = Null }

\* the orders a queryset can yield the rows of S in: Meta.ordering sorts by
\* state, city and name and leaves ties to the database
Orders(S) == { o \in [1..Cardinality(S) -> S] :
                 \A i, j \in 1..Cardinality(S) : i # j => o[i] # o[j] }

\* the loop of geocode_all_churches from row i of the queryset on; gs gives
\* the geocoder's answer for each church
RECURSIVE GeocodeEach(_, _, _, _, _, _)
GeocodeEach(d0, order, force_update, gs, i, st) ==
    IF i > Len(order) \/ st.raised THEN st
    ELSE LET church == d0[order[i]]
             Counted(r) ==
                 IF r.raised
                 THEN [st EXCEPT !.raised = TRUE, !.calls = @ \o r.calls]
                 ELSE [db |-> r.db, calls |-> st.calls \o r.calls, raised |-> FALSE,
                       successful |-> st.successful
                           + (IF r.result.success /\ ~Skipped(r.result) THEN 1 ELSE 0),
                       skipped |-> st.skipped
                           + (IF r.result.success /\ Skipped(r.result) THEN 1 ELSE 0),
                       failed |-> st.failed + (IF r.result.success THEN 0 ELSE 1),
                       failed_churches |->
                           IF r.result.success THEN st.failed_churches
                           ELSE Append(st.failed_churches,
                                       [church |-> church.pk, error |-> r.result.message]),
                       sleeps |-> st.sleeps + (IF i < Len(order) THEN 1 ELSE 0)]
         IN  GeocodeEach(d0, order, force_update, gs, i + 1,
                         Counted(GeocodeChurchOn(st.db, church, force_update, gs[church.pk])))

\* geocode_all_churches(force_update) on table d
GeocodeAllOn(d, force_update, order, gs) ==
    LET total_churches == Cardinality(Selection(d, force_update))
        Result(st) ==
            IF st.raised
            THEN [db |-> st.db, calls |-> st.calls, raised |-> TRUE, result |-> NoResult]
            ELSE [db |-> st.db, calls |-> st.calls, raised |-> FALSE,
                  result |-> [success |-> TRUE, message |-> "Geocoding completed",
                              total |-> total_churches, successful |-> st.successful,
                              failed |-> st.failed, skipped |-> st.skipped,
                              failed_churches |-> st.failed_churches]]
    IN  IF total_churches = 0
        THEN [db |-> d, calls |-> <<>>, raised |-> FALSE,
              result |-> [success |-> TRUE, message |-> "No churches need geocoding",
                          total |-> 0, successful |-> 0, failed |-> 0, skipped |-> 0]]
        ELSE Result(GeocodeEach(d, order, force_update, gs, 1,
                                [db |-> d, calls |-> <<>>, raised |-> FALSE, successful |-> 0,
                                 skipped |-> 0, failed |-> 0, failed_churches |-> <<>>,
                                 sleeps |-> 0]))

\* ----------------------------------------------------------------- import
\* a row of import data; has is the set of its keys
Row(has, name, street, city, state, zip, phone, website, email, times, active) ==
    [has |-> has, name |-> name, street_address |-> street, city |-> city,
     state |-> state, zip_code |-> zip, phone |-> phone, website |-> website,
     email |-> email, service_times |-> times, is_active |-> active]

RequiredKeys == {"name", "street_address", "city", "state"}
OptionalKeys == {"zip_code", "phone", "website", "email", "service_times", "is_active"}

\* the lookup that never finds a church
Matching_None(d, name, street, city, state) == {}

\* the rows with the given key: get_or_create and get compare the stored
\* values as they are
Matching(d, name, street, city, state) ==
    { i \in Stored(d) : /\ d[i].name = name
                        /\ d[i].street_address = street
                        /\ d[i].city = city
                        /\ d[i].state = state }

\* one iteration of the loop of import_church_data on table d: the table
\* afterwards, whether the row was created, updated or failed, and the error
ImportRow(d, data) ==
    LET Fail(error) == [db |-> d, outcome |-> "failed", error |-> error, full |-> FALSE]
        Created(saved) ==
            IF saved.error THEN Fail("ValidationError")
            ELSE [db |-> saved.db, outcome |-> "created", error |-> "", full |-> saved.full]
        Updated(saved) ==
            IF saved.error THEN Fail("ValidationError")
            ELSE [db |-> saved.db, outcome |-> "updated", error |-> "", full |-> FALSE]
        Upsert(name, street_address, city, state, matches) ==
            IF name = <<>> \/ street_address = <<>> \/ city = <<>> \/ state = <<>>
            THEN Fail("Missing required fields")
            ELSE IF matches = {}
            THEN Created(Save(d, Church(0, name, street_address, city, state,
                                        PropGet(data, "zip_code", <<>>),
                                        PropGet(data, "phone", ""),
                                        PropGet(data, "website", ""),
                                        PropGet(data, "email", ""),
                                        PropGet(data, "service_times", ""),
                                        PropGet(data, "is_active", TRUE),
                                        Null, Null, "medium")))
            ELSE IF Cardinality(matches) > 1 THEN Fail("MultipleObjectsReturned")
            ELSE Updated(Save(d, [d[CHOOSE i \in matches : TRUE] EXCEPT
                                    !.zip_code = PropGet(data, "zip_code", @),
                                    !.phone = PropGet(data, "phone", @),
                                    !.website = PropGet(data, "website", @),
                                    !.email = PropGet(data, "email", @),
                                    !.service_times = PropGet(data, "service_times", @),
                                    !.is_active = PropGet(data, "is_active", @)]))
        Keyed(name, street_address, city, state) ==
            Upsert(name, street_address, city, state,
                   Matching(d, name, street_address, city, state))
    IN  Keyed(Strip(PropGet(data, "name", <<>>)),
              Strip(PropGet(data, "street_address", <<>>)),
              Strip(PropGet(data, "city", <<>>)),
              Strip(PropGet(data, "state", <<>>)))

\* the loop that stops at the first row that fails
RECURSIVE ImportEach_Abort(_, _, _)
ImportEach_Abort(church_data, i, st) ==
    IF i > Len(church_data) THEN st
    ELSE LET Counted(r) ==
                 [db |-> r.db, full |-> st.full \/ r.full,
                  created |-> st.created + (IF r.outcome = "created" THEN 1 ELSE 0),
                  updated |-> st.updated + (IF r.outcome = "updated" THEN 1 ELSE 0),
                  failed |-> st.failed + (IF r.outcome = "failed" THEN 1 ELSE 0),
                  failed_records |->
                      IF r.outcome = "failed"
                      THEN Append(st.failed_records, [index |-> i, error |-> r.error])
                      ELSE st.failed_records,
                  steps |-> Append(st.steps, [outcome |-> r.outcome, error |-> r.error,
                                              before |-> st.db, after |-> r.db])]
             Continue(next) ==
                 IF next.failed > st.failed THEN next
                 ELSE ImportEach_Abort(church_data, i + 1, next)
         IN  Continue(Counted(ImportRow(st.db, church_data[i])))

\* the loop of import_church_data from row i on; steps keeps, for each row,
\* what became of it and the table before and after it
RECURSIVE ImportEach(_, _, _)
ImportEach(church_data, i, st) ==
    IF i > Len(church_data) THEN st
    ELSE LET Counted(r) ==
                 [db |-> r.db, full |-> st.full \/ r.full,
                  created |-> st.created + (IF r.outcome = "created" THEN 1 ELSE 0),
                  updated |-> st.updated + (IF r.outcome = "updated" THEN 1 ELSE 0),
                  failed |-> st.failed + (IF r.outcome = "failed" THEN 1 ELSE 0),
                  failed_records |->
                      IF r.outcome = "failed"
                      THEN Append(st.failed_records, [index |-> i, error |-> r.error])
                      ELSE st.failed_records,
                  steps |-> Append(st.steps, [outcome |-> r.outcome, error |-> r.error,
                                              before |-> st.db, after |-> r.db])]
         IN  ImportEach(church_data, i + 1, Counted(ImportRow(st.db, church_data[i])))

\* import_church_data that reports an empty list as a success
ImportOn_EmptyOk(d, church_data) ==
    LET Result(st) ==
            [db |-> st.db, full |-> st.full, steps |-> st.steps,
             result |-> [success |-> TRUE, message |-> "Import completed",
                         total |-> Len(church_data), created |-> st.created,
                         updated |-> st.updated, failed |-> st.failed,
                         failed_records |-> st.failed_records]]
    IN  Result(ImportEach(church_data, 1,
                          [db |-> d, full |-> FALSE, created |-> 0, updated |-> 0,
                           failed |-> 0, failed_records |-> <<>>, steps |-> <<>>]))

\* import_church_data(church_data) on table d; full tells that a row found
\* the table full
ImportOn(d, church_data) ==
    LET Result(st) ==
            [db |-> st.db, full |-> st.full, steps |-> st.steps,
             result |-> [success |-> TRUE, message |-> "Import completed",
                         total |-> Len(church_data), created |-> st.created,
                         updated |-> st.updated, failed |-> st.failed,
                         failed_records |-> st.failed_records]]
    IN  IF church_data = <<>>
        THEN [db |-> d, full |-> FALSE, steps |-> <<>>,
              result |-> [success |-> FALSE, message |-> "No church data provided",
                          total |-> 0, created |-> 0, updated |-> 0, failed |-> 0]]
        ELSE Result(ImportEach(church_data, 1,
                               [db |-> d, full |-> FALSE, created |-> 0, updated |-> 0,
                                failed |-> 0, failed_records |-> <<>>, steps |-> <<>>]))

\* ----------------------------------------------------------- fix_addresses
\* an entry of the list of fixes
Fix(name, street, city, state, zip) ==
    [name |-> name, street_address |-> street, city |-> city, state |-> state, zip_code |-> zip]

\* one iteration of the loop of fix_addresses that keeps the coordinates
FixOne_KeepCoordinates(d, fix) ==
    LET named == { i \in Stored(d) : d[i].name = fix.name }
        Saved(saved) == IF saved.error THEN [db |-> d, updated |-> FALSE]
                        ELSE [db |-> saved.db, updated |-> TRUE]
    IN  IF Cardinality(named) # 1 THEN [db |-> d, updated |-> FALSE]
        ELSE Saved(Save(d, [d[CHOOSE i \in named : TRUE] EXCEPT
                                                 !.street_address = fix.street_address,
                                                 !.city = fix.city,
                                                 !.state = fix.state,
                                                 !.zip_code = fix.zip_code]))

\* one iteration of the loop of fix_addresses: Church.objects.get(name=...)
\* raises when no church or more than one has the name
FixOne(d, fix) ==
    LET named == { i \in Stored(d) : d[i].name = fix.name }
        Saved(saved) == IF saved.error THEN [db |-> d, updated |-> FALSE]
                        ELSE [db |-> saved.db, updated |-> TRUE]
    IN  IF Cardinality(named) # 1 THEN [db |-> d, updated |-> FALSE]
        ELSE Saved(Save(d, [d[CHOOSE i \in named : TRUE] EXCEPT
                                                 !.street_address = fix.street_address,
                                                 !.city = fix.city,
                                                 !.state = fix.state,
                                                 !.zip_code = fix.zip_code,
                                                 !.latitude = Null,
                                                 !.longitude = Null,
                                                 !.geocoding_accuracy = "medium"]))

\* the loop of fix_addresses from fix i on
RECURSIVE FixEach(_, _, _)
FixEach(fixes, i, st) ==
    IF i > Len(fixes) THEN st
    ELSE LET Counted(r) ==
                 [db |-> r.db,
                  updated_count |-> st.updated_count + (IF r.updated THEN 1 ELSE 0)]
         IN  FixEach(fixes, i + 1, Counted(FixOne(st.db, fixes[i])))

\* fix_addresses() on table d
FixAddressesOn(d, fixes) == FixEach(fixes, 1, [db |-> d, updated_count |-> 0])

\* ------------------------------------------------------- inputs on records
NameN == <<"N">>
NameM == <<"M">>
Street == <<"1", " ", "S">>
City == <<"C">>
State == <<"O", "H">>
Zip == <<"4", "5">>
LongZip == <<"4", "5", "4", "0", "4", "-", "1", "2", "3", "4", "5">>

AllKeys == RequiredKeys \cup OptionalKeys

R_new == Row(AllKeys, NameN, Street, City, State, Zip, "555", "http://a.org", "a@a.org", "Sun 10", TRUE)
R_padded == Row(RequiredKeys \cup {"phone"}, <<" ", "N", " ">>, Street, City, State,
                <<>>, "777", "", "", "", TRUE)
R_blank == Row(RequiredKeys, <<" ">>, Street, City, State, <<>>, "", "", "", "", TRUE)
R_nostate == Row({"name", "street_address", "city"}, NameM, Street, City, <<>>, <<>>, "", "", "", "", TRUE)
R_longzip == Row(RequiredKeys \cup {"zip_code"}, NameN, Street, City, State, LongZip, "", "", "", "", TRUE)
R_inactive == Row(RequiredKeys \cup {"is_active"}, NameN, Street, City, State, <<>>, "", "", "", "", FALSE)
R_other == Row(RequiredKeys, NameM, Street, City, State, <<>>, "", "", "", "", TRUE)

Rows == { R_new, R_padded, R_blank, R_nostate, R_longzip, R_inactive, R_other }

\* rows of a batch
MaxRows == 2

RECURSIVE SeqsUpTo(_, _)
SeqsUpTo(X, n) ==
    IF n = 0 THEN { <<>> }
    ELSE LET shorter == SeqsUpTo(X, n - 1)
         IN  shorter \cup { Append(q, x) : q \in shorter, x \in X }

Batches == SeqsUpTo(Rows, MaxRows)

\* instances for Church.objects.create: an active and an inactive church
\* without coordinates, and three that validation rejects (no name, a
\* latitude only, a latitude out of range)
NewChurches ==
    { Church(0, NameN, Street, City, State, Zip, "555", "", "", "", TRUE, Null, Null, "medium"),
      Church(0, NameM, Street, City, State, <<>>, "", "", "", "", FALSE, Null, Null, "medium"),
      Church(0, <<" ">>, Street, City, State, <<>>, "", "", "", "", TRUE, Null, Null, "medium"),
      Church(0, NameM, Street, City, State, <<>>, "", "", "", "", TRUE, Dec(40 * Degree), Null, "medium"),
      Church(0, NameM, Street, City, State, <<>>, "", "", "", "", TRUE, Dec(91 * Degree), Dec(0), "medium") }

\* an instance created with the coordinates a geocoder gave
NewChurchesWithCoordinates ==
    { Church(0, NameN, Street, City, State, Zip, "555", "", "", "", TRUE,
             Dec(40 * Degree), Dec(-(83 * Degree + 2)), "high") }

\* what a caller does to an instance it loaded before it passes it on or
\* saves it
Edits == { "none", "name", "latitude", "longitude", "north", "inactive" }

Edit(church, edit) ==
    CASE edit = "name" -> [church EXCEPT !.name = <<>>]
      [] edit = "latitude" -> [church EXCEPT !.latitude = Dec(41 * Degree), !.longitude = Null]
      [] edit = "longitude" -> [church EXCEPT !.latitude = Null, !.longitude = Dec(-84 * Degree)]
      [] edit = "north" -> [church EXCEPT !.latitude = Dec(90 * Degree + 1),
                                          !.longitude = Dec(-84 * Degree)]
      [] edit = "inactive" -> [church EXCEPT !.is_active = FALSE]
      [] OTHER -> church

\* the list of fixes of fix_addresses
Fixes == << Fix(NameN, <<"2", " ", "S">>, City, State, Zip), Fix(<<"X">>, Street, City, State, Zip) >>

\* no operation yet
NoOperation == [op |-> "none"]

\* ------------------------------------------------------- distances
\* math.sin in units of 1e-4 for the angles 0, 0.5, ..., 90 degrees
SinTable ==
    <<
       0, 87, 175, 262, 349, 436, 523, 610, 698, 785, 872, 958,
       1045, 1132, 1219, 1305, 1392, 1478, 1564, 1650, 1736, 1822, 1908, 1994,
       2079, 2164, 2250, 2334, 2419, 2504, 2588, 2672, 2756, 2840, 2924, 3007,
       3090, 3173, 3256, 3338, 3420, 3502, 3584, 3665, 3746, 3827, 3907, 3987,
       4067, 4147, 4226, 4305, 4384, 4462, 4540, 4617, 4695, 4772, 4848, 4924,
       5000, 5075, 5150, 5225, 5299, 5373, 5446, 5519, 5592, 5664, 5736, 5807,
       5878, 5948, 6018, 6088, 6157, 6225, 6293, 6361, 6428, 6494, 6561, 6626,
       6691, 6756, 6820, 6884, 6947, 7009, 7071, 7133, 7193, 7254, 7314, 7373,
       7431, 7490, 7547, 7604, 7660, 7716, 7771, 7826, 7880, 7934, 7986, 8039,
       8090, 8141, 8192, 8241, 8290, 8339, 8387, 8434, 8480, 8526, 8572, 8616,
       8660, 8704, 8746, 8788, 8829, 8870, 8910, 8949, 8988, 9026, 9063, 9100,
       9135, 9171, 9205, 9239, 9272, 9304, 9336, 9367, 9397, 9426, 9455, 9483,
       9511, 9537, 9563, 9588, 9613, 9636, 9659, 9681, 9703, 9724, 9744, 9763,
       9781, 9799, 9816, 9833, 9848, 9863, 9877, 9890, 9903, 9914, 9925, 9936,
       9945, 9954, 9962, 9969, 9976, 9981, 9986, 9990, 9994, 9997, 9998, 10000,
       10000 >>

\* math.sin(math.radians(h / 2)) in units of 1e-4; h counts half degrees
RECURSIVE Sin(_)
Sin(h) == IF h < 0 THEN -Sin(-h)
          ELSE IF h > 360 THEN -Sin(h - 360)
          ELSE IF h > 180 THEN SinTable[360 - h + 1]
          ELSE SinTable[h + 1]

\* math.cos(math.radians(h / 2)) in units of 1e-4
Cos(h) == Sin(180 - h)

\* math.sqrt(a) in units of 1e-4 for a in units of 1e-8
Sqrt(a) ==
    LET RECURSIVE Between(_, _)
        Between(lo, hi) ==
            IF lo = hi THEN lo
            ELSE IF ((lo + hi + 1) \div 2) * ((lo + hi + 1) \div 2) <= a
                 THEN Between((lo + hi + 1) \div 2, hi)
                 ELSE Between(lo, (lo + hi + 1) \div 2 - 1)
    IN  Between(0, 10000)

\* math.asin(x) for x in units of 1e-4, in thousandths of half a degree
Asin(x) ==
    LET RECURSIVE Below(_, _)
        Below(lo, hi) ==
            IF lo = hi THEN lo
            ELSE IF SinTable[(lo + hi + 1) \div 2 + 1] <= x
                 THEN Below((lo + hi + 1) \div 2, hi)
                 ELSE Below(lo, (lo + hi + 1) \div 2 - 1)
        Between(h) == IF h = 180 THEN 180000
                      ELSE 1000 * h + (1000 * (x - SinTable[h + 1]))
                                         \div (SinTable[h + 2] - SinTable[h + 1])
    IN  Between(Below(0, 180))

\* the distance that takes the cosine of the first latitude twice
HaversineDistance_OneCosine(lat1, lon1, lat2, lon2) ==
    LET Distance(a) == 111 * Asin(Sqrt(a)) + (195 * Asin(Sqrt(a))) \div 1000
        Scaled(cosines, square) ==
            cosines * (square \div 10000) + (cosines * (square % 10000)) \div 10000
    IN  Distance(Sin(lat2 - lat1) * Sin(lat2 - lat1)
                 + Scaled((Cos(2 * lat1) * Cos(2 * lat1)) \div 10000,
                          Sin(lon2 - lon1) * Sin(lon2 - lon1)))

\* Church._haversine_distance for coordinates in whole degrees, in metres:
\* dlat / 2 and dlon / 2 are counts of half degrees, a is in units of 1e-8,
\* and 2 * 6371 km * asin is 111.195 m for each thousandth of half a degree
HaversineDistance(lat1, lon1, lat2, lon2) ==
    LET Distance(a) == 111 * Asin(Sqrt(a)) + (195 * Asin(Sqrt(a))) \div 1000
        Scaled(cosines, square) ==
            cosines * (square \div 10000) + (cosines * (square % 10000)) \div 10000
    IN  Distance(Sin(lat2 - lat1) * Sin(lat2 - lat1)
                 + Scaled((Cos(2 * lat1) * Cos(2 * lat2)) \div 10000,
                          Sin(lon2 - lon1) * Sin(lon2 - lon1)))

\* church.distance_to_point(latitude, longitude) without PostGIS: None
\* for a church without coordinates
DistanceToPoint(church, latitude, longitude) ==
    IF ~HasCoordinates(church) THEN Null
    ELSE [metres |-> HaversineDistance(church.latitude.units \div Degree,
                                       church.longitude.units \div Degree,
                                       latitude, longitude)]

\* ------------------------------------------------------------------ views
\* query parameters are texts; <<>> is a parameter that is absent or empty

\* a containment test that tells upper case from lower case
IContains_CaseSensitive(field, text) ==
    \E i \in 1..(Len(field) - Len(text) + 1) : SubSeq(field, i, i + Len(text) - 1) = text

\* field__icontains=text: the text occurs in the field, whatever the case
IContains(field, text) ==
    \E i \in 1..(Len(field) - Len(text) + 1) :
       SubSeq(Lower(field), i, i + Len(text) - 1) = Lower(text)

Digits == {"0", "1", "2", "3", "4", "5", "6", "7", "8", "9"}

DigitValue(ch) == CASE ch = "0" -> 0 [] ch = "1" -> 1 [] ch = "2" -> 2 [] ch = "3" -> 3
                    [] ch = "4" -> 4 [] ch = "5" -> 5 [] ch = "6" -> 6 [] ch = "7" -> 7
                    [] ch = "8" -> 8 [] OTHER -> 9

RECURSIVE DigitsValue(_)
DigitsValue(s) == IF s = <<>> THEN 0
                  ELSE 10 * DigitsValue(SubSeq(s, 1, Len(s) - 1)) + DigitValue(s[Len(s)])

\* float(text) for the texts of whole numbers: ok is FALSE where float
\* raises ValueError
ParseFloat(text) ==
    LET negative == text # <<>> /\ Head(text) = "-"
        digits == IF negative THEN Tail(text) ELSE text
    IN  IF digits = <<>> \/ \E i \in 1..Len(digits) : digits[i] \notin Digits
        THEN [ok |-> FALSE, value |-> 0]
        ELSE [ok |-> TRUE, value |-> IF negative THEN -DigitsValue(digits) ELSE DigitsValue(digits)]

\* 1 / 111.32 degrees per km, in units of 1e-7 degree
UnitsPerKm == 89831

\* 100 / cos(radians(latitude)) for the latitudes searched around
SecCenti(latitude) == CASE latitude = 0 -> 100
                        [] latitude = 40 -> 131
                        [] OTHER -> 200

\* find_nearby that keeps only the churches of the bounding box whose
\* great-circle distance is within the radius
FindNearby_WithinRadius(d, latitude, longitude, radius_km) ==
    LET lat_delta == radius_km * UnitsPerKm
        lon_delta == (lat_delta \div 100) * SecCenti(latitude)
    IN  { i \in Stored(d) :
            /\ d[i].latitude # Null
            /\ latitude * Degree - lat_delta <= d[i].latitude.units
            /\ d[i].latitude.units <= latitude * Degree + lat_delta
            /\ d[i].longitude # Null
            /\ longitude * Degree - lon_delta <= d[i].longitude.units
            /\ d[i].longitude.units <= longitude * Degree + lon_delta
            /\ d[i].is_active
            /\ DistanceToPoint(d[i], latitude, longitude).metres <= 1000 * radius_km }

\* find_nearby that leaves out the is_active filter
FindNearby_AnyStatus(d, latitude, longitude, radius_km) ==
    LET lat_delta == radius_km * UnitsPerKm
        lon_delta == (lat_delta \div 100) * SecCenti(latitude)
    IN  { i \in Stored(d) :
            /\ d[i].latitude # Null
            /\ latitude * Degree - lat_delta <= d[i].latitude.units
            /\ d[i].latitude.units <= latitude * Degree + lat_delta
            /\ d[i].longitude # Null
            /\ longitude * Degree - lon_delta <= d[i].longitude.units
            /\ d[i].longitude.units <= longitude * Degree + lon_delta }

\* Church.find_nearby(latitude, longitude, radius_km) without PostGIS (the
\* sqlite3 engine of settings_production.py): the active churches in the
\* bounding box; latitude and longitude are whole degrees
FindNearby(d, latitude, longitude, radius_km) ==
    LET lat_delta == radius_km * UnitsPerKm
        lon_delta == (lat_delta \div 100) * SecCenti(latitude)
    IN  { i \in Stored(d) :
            /\ d[i].latitude # Null
            /\ latitude * Degree - lat_delta <= d[i].latitude.units
            /\ d[i].latitude.units <= latitude * Degree + lat_delta
            /\ d[i].longitude # Null
            /\ longitude * Degree - lon_delta <= d[i].longitude.units
            /\ d[i].longitude.units <= longitude * Degree + lon_delta
            /\ d[i].is_active }

\* ChurchListAPIView.get_queryset
ListQueryset(d, state, city, has_coordinates) ==
    { i \in Stored(d) :
        /\ d[i].is_active
        /\ state # <<>> => IContains(d[i].state, state)
        /\ city # <<>> => IContains(d[i].city, city)
        /\ (has_coordinates # <<>> /\ Lower(has_coordinates) = <<"t", "r", "u", "e">>)
           => (d[i].latitude # Null /\ d[i].longitude # Null) }

\* ChurchDetailAPIView: the church of the id in the active queryset, or 404
DetailResponse(d, id) ==
    IF id \in Stored(d) /\ d[id].is_active
    THEN [status |-> 200, returned |-> {id}]
    ELSE [status |-> 404, returned |-> {}]

\* ChurchMapAPIView.get_queryset
MapQueryset(d) ==
    { i \in Stored(d) : d[i].is_active /\ d[i].latitude # Null /\ d[i].longitude # Null }

\* the fallback of the text search when GeocodingService() raises
\* GeocodingError (no API key)
NoService == [unavailable |-> TRUE]

\* ChurchSearchAPIView.get_queryset: the churches returned, whether the
\* geocoder was called, and whether an exception left the view; g is what
\* the geocoding service does if it is asked
SearchQueryset(d, q, lat, lng, radius, g) ==
    LET radius_km == IF radius # <<>> /\ ParseFloat(radius).ok
                     THEN ParseFloat(radius).value ELSE 50
        text_results == { i \in Stored(d) :
                            /\ d[i].is_active
                            /\ \/ IContains(d[i].name, q)
                               \/ IContains(d[i].city, q)
                               \/ IContains(d[i].state, q)
                               \/ IContains(d[i].street_address, q) }
        Found(ids, called) == [returned |-> ids, distance |-> [i \in ids |-> Null],
                               called |-> called, raised |-> FALSE]
        Measured(ids, latitude, longitude, called) ==
            [returned |-> ids,
             distance |-> [i \in ids |-> DistanceToPoint(d[i], latitude, longitude)],
             called |-> called, raised |-> FALSE]
        Nearby(latitude, longitude, called) ==
            Measured(FindNearby(d, latitude, longitude, radius_km), latitude, longitude, called)
    IN  IF lat # <<>> /\ lng # <<>>
        THEN IF ParseFloat(lat).ok /\ ParseFloat(lng).ok
             THEN Nearby(ParseFloat(lat).value, ParseFloat(lng).value, FALSE)
             ELSE Found({}, FALSE)
        ELSE IF q # <<>>
        THEN IF text_results # {} THEN Found(text_results, FALSE)
             ELSE IF g = NoService THEN Found({}, FALSE)
             ELSE IF g = GeoRaise
             THEN [returned |-> {}, distance |-> <<>>, called |-> TRUE, raised |-> TRUE]
             ELSE IF g.success THEN Nearby(g.latitude, g.longitude, TRUE)
             ELSE Found({}, TRUE)
        ELSE Found({}, FALSE)

\* church_stats: the counts of the response
StatsResponse(d) ==
    LET active == { i \in Stored(d) : d[i].is_active }
        located == { i \in active : d[i].latitude # Null /\ d[i].longitude # Null }
        states == { d[i].state : i \in active }
    IN  [total_churches |-> Cardinality(active),
         churches_with_coordinates |-> Cardinality(located),
         states |-> [st \in states |->
                       [total |-> Cardinality({ i \in active : d[i].state = st }),
                        with_coordinates |-> Cardinality({ i \in located : d[i].state = st })]]]

\* query parameters of the views
StateParams == { <<>>, <<"o", "h">>, <<"X">> }
CityParams == { <<>>, <<"c">> }
HasCoordinatesParams == { <<>>, <<"T", "r", "u", "e">>, <<"n", "o">> }
QueryParams == { <<>>, <<"n">>, <<"z">> }
LatParams == { <<>>, <<"4", "0">>, <<"a">> }
LngParams == { <<>>, <<"-", "8", "3">> }
RadiusParams == { <<>>, <<"3", "0", "0">>, <<"x">> }

\* what the geocoding service of the text search does: the results of the
\* parser for a response with a feature and for one without, an exception
\* that leaves geocode_address, or no service
SearchGeoResults == { ParseGeocodingResponse(Object(<<F_ok>>), <<"z">>),
                      ParseGeocodingResponse(Object(<<>>), <<"z">>),
                      GeoRaise, NoService }

\* churches created for the views: active, at the place a search looks
\* around, in a corner of its bounding box, far from it, and without
\* coordinates
ViewChurches ==
    { Church(0, NameN, Street, City, State, Zip, "555", "", "", "", TRUE,
             Dec(40 * Degree), Dec(-83 * Degree), "high"),
      Church(0, NameN, Street, City, State, Zip, "555", "", "", "", TRUE,
             Dec(40 * Degree), Dec(-74 * Degree), "high"),
      Church(0, NameM, Street, City, State, Zip, "", "", "", "", TRUE,
             Dec(42 * Degree), Dec(-80 * Degree), "medium"),
      Church(0, NameM, Street, City, State, <<>>, "", "", "", "", TRUE, Null, Null, "medium") }

\* ----------------------------------------------------------------- state
VARIABLES
    cache,                    \* django cache: key -> cached result or NoEntry
    call,                     \* per caller: the client call it is in
    jsonErrorIsRequestError   \* the installed requests raises its own
                              \* JSONDecodeError (a RequestException and a
                              \* ValueError) from response.json(); older
                              \* releases raise a plain ValueError

\* the accuracy classifier on its own: the properties it is given and the
\* tier it returned ("none" before the call)
VARIABLES acc

\* the Church table and the latest operation on it
VARIABLES
    db,      \* id -> stored row of the Church table, or NoRecord
    last     \* the latest operation: its arguments, the instance it was
             \* given before and after, its geocoder calls and its outcome

\* the variables of the clients, which the other components leave alone
clientVars == <<cache, call, jsonErrorIsRequestError>>

\* the variables of the other components, which the clients leave alone
otherVars == <<acc, db, last>>

vars == <<cache, call, jsonErrorIsRequestError, otherVars>>

\* a caller that is in no call; the fields are the arguments and locals of
\* geocode_address, reverse_geocode (coords is <<latitude, longitude>>) and
\* get_directions (coords is <<start_lng, start_lat, end_lng, end_lat>>),
\* plus what the call has done so far:
\*   nreq        requests issued by the call
\*   delays      arguments of the time.sleep calls of the call, in order
\*   cacheRead   the call has called cache.get
\*   cacheWrote  the call has called cache.set
\*   hit         the call returned the cached result
\*   lastOutcome outcome of the latest attempt
\*   raised      the call ended by an exception leaving geocode_address
IdleCall == [pc |-> "idle", op |-> "none", coords |-> <<>>, profile |-> "",
             addressArg |-> <<>>, address |-> <<>>, country |-> <<>>,
             retriesArg |-> RetriesNone, retries |-> 0, useCache |-> FALSE,
             attempt |-> 0, lastError |-> "None", nreq |-> 0, delays |-> <<>>,
             cacheRead |-> FALSE, cacheWrote |-> FALSE, hit |-> FALSE,
             lastOutcome |-> NoOutcome, result |-> NoResult, raised |-> FALSE]

\* no classification asked for
AccIdle == [props |-> NoProps, tier |-> "none"]

\* the clients after construction, with an empty cache
ClientsInit == /\ cache = [k \in CacheKeys |-> NoEntry]
               /\ call = [c \in Callers |-> IdleCall]
               /\ jsonErrorIsRequestError \in BOOLEAN

\* an empty table
RecordsIdle == /\ db = [i \in Ids |-> NoRecord]
               /\ last = NoOperation

Init == /\ ClientsInit
        /\ acc = AccIdle
        /\ RecordsIdle

\* ------------------------------------------------------- geocode_address
\* the check without the strip
Blank_OnlyEmpty(address) == address = <<>>

\* not address or not address.strip()
Blank(address) == address = <<>> \/ Strip(address) = <<>>

\* retries = retries or self.DEFAULT_RETRIES
EffectiveRetries(arg) == IF arg.given /\ arg.value # 0 THEN arg.value ELSE DEFAULT_RETRIES

\* the lookup with a key built from the address and country as passed
GetCachedResult_RawKey(address, country) ==
    LET key == <<"geocoding", address, country>>
    IN  IF key \in DOMAIN cache THEN cache[key] ELSE NoEntry

\* cache.get(cache_key): None when there is no entry
GetCachedResult(address, country) == cache[GetCacheKey(address, country)]

\* if cached_result: a dict is truthy when it is not empty
Truthy(cached) == cached # NoEntry

\* every result is stored
ShouldCache_Always(result, useCache) == useCache

\* if result['success'] and use_cache
ShouldCache(result, useCache) == result.success /\ useCache

\* the code after the loop: return the failure built from last_error
Finish(k) == [k EXCEPT !.pc = "done",
                       !.result = AllAttemptsFailed(k.op, k.retries, k.lastError)]

\* the end of an iteration with the sleep taken after the last attempt too
NextIteration_SleepAfterLast(k, err, delay) ==
    IF k.attempt < k.retries
    THEN [k EXCEPT !.lastError = err, !.delays = Append(@, delay), !.attempt = @ + 1]
    ELSE Finish([k EXCEPT !.lastError = err, !.delays = Append(@, delay)])

\* the next iteration without the sleep
NextIteration_NoSleep(k, err, delay) ==
    IF k.attempt < k.retries
    THEN [k EXCEPT !.lastError = err, !.attempt = @ + 1]
    ELSE Finish([k EXCEPT !.lastError = err])

\* the end of an iteration that neither returned nor broke: sleep when this
\* was not the last attempt, then the next value of the range
NextIteration(k, err, delay) ==
    IF k.attempt < k.retries
    THEN [k EXCEPT !.lastError = err, !.delays = Append(@, delay), !.attempt = @ + 1]
    ELSE Finish([k EXCEPT !.lastError = err])

\* the error handled like a timeout instead of breaking
Break_Retry(k, err) == NextIteration(k, err, DEFAULT_RETRY_DELAY)

\* break
Break(k, err) == Finish([k EXCEPT !.lastError = err])

\* f"HTTP error {status_code}: ..." with status_code 'unknown' when
\* e.response is falsy
HttpErrorText(o) ==
    IF ~ResponseTruthy(o) THEN "HTTP error unknown"
    ELSE CASE o.status = 404 -> "HTTP error 404"
           [] o.status = 429 -> "HTTP error 429"
           [] OTHER -> "HTTP error 500"

\* entry of geocode_address up to the loop: the empty check, strip, the
\* defaults and the cache lookup
GeocodeStart(c, address, country, retriesArg, useCache) ==
    /\ call[c].pc \in {"idle", "done"}
    /\ LET k0 == [IdleCall EXCEPT !.op = "geocode", !.addressArg = address, !.country = country,
                                  !.retriesArg = retriesArg, !.useCache = useCache]
           stripped == Strip(address)
           retries == EffectiveRetries(retriesArg)
           k1 == [k0 EXCEPT !.address = stripped, !.retries = retries,
                            !.cacheRead = useCache]
           cached == GetCachedResult(stripped, country)
       IN  call' = [call EXCEPT ![c] =
             IF Blank(address)
             THEN [k0 EXCEPT !.pc = "done", !.result = Failure("Address cannot be empty")]
             ELSE IF useCache /\ Truthy(cached)
             THEN [k1 EXCEPT !.pc = "done", !.hit = TRUE, !.result = cached]
             ELSE IF retries + 1 <= 0
             THEN Finish(k1)
             ELSE [k1 EXCEPT !.pc = "loop"]]
    /\ UNCHANGED <<cache, jsonErrorIsRequestError, otherVars>>

\* one iteration of the retry loop: the request and what its outcome leads to
GeocodeAttempt(c, o) ==
    /\ call[c].pc = "loop"
    /\ call[c].op = "geocode"
    /\ LET k == [call[c] EXCEPT !.nreq = @ + 1, !.lastOutcome = o]
           result == ParseGeocodingResponse(o.body, k.address)
           store == /\ o.kind = "ok"
                    /\ o.body.kind = "object"
                    /\ ShouldCache(result, k.useCache)
       IN  /\ call' = [call EXCEPT ![c] =
                CASE o.kind = "timeout" ->
                       NextIteration(k, "Request timeout", DEFAULT_RETRY_DELAY)
                  [] o.kind = "http" ->
                       IF ResponseTruthy(o) /\ o.status = 429
                       THEN NextIteration(k, "Rate limit exceeded",
                                          DEFAULT_RETRY_DELAY * (k.attempt + 1))
                       ELSE Break(k, HttpErrorText(o))
                  [] o.kind = "request" ->
                       NextIteration(k, "Request error", DEFAULT_RETRY_DELAY)
                  [] o.kind = "ok" /\ o.body.kind = "notjson" ->
                       IF jsonErrorIsRequestError
                       THEN NextIteration(k, "Request error", DEFAULT_RETRY_DELAY)
                       ELSE Break(k, "Response parsing error")
                  [] o.kind = "ok" /\ ParseRaises(o.body) ->
                       [k EXCEPT !.pc = "done", !.raised = TRUE]
                  [] OTHER ->
                       [k EXCEPT !.pc = "done", !.result = result, !.cacheWrote = store]]
           /\ cache' = IF store
                       THEN [cache EXCEPT ![GetCacheKey(k.address, k.country)] = result]
                       ELSE cache
    /\ UNCHANGED <<jsonErrorIsRequestError, otherVars>>

\* ------------------------------------------------------- reverse_geocode
\* the entry with the cache lookup counted before the range check
ReverseStart_CacheFirst(c, latitude, longitude, useCache) ==
    /\ call[c].pc \in {"idle", "done"}
    /\ LET k0 == [IdleCall EXCEPT !.op = "reverse", !.coords = <<latitude, longitude>>,
                                  !.useCache = useCache, !.retries = DEFAULT_RETRIES]
           k1 == [k0 EXCEPT !.cacheRead = useCache]
       IN  call' = [call EXCEPT ![c] =
             IF ~(-90 <= latitude /\ latitude <= 90) \/ ~(-180 <= longitude /\ longitude <= 180)
             THEN [k1 EXCEPT !.pc = "done", !.result = Failure("Invalid coordinate ranges")]
             ELSE IF useCache /\ Truthy(cache[ReverseCacheKey(latitude, longitude)])
             THEN [k1 EXCEPT !.pc = "done", !.hit = TRUE, !.result = cache[ReverseCacheKey(latitude, longitude)]]
             ELSE [k1 EXCEPT !.pc = "loop"]]
    /\ UNCHANGED <<cache, jsonErrorIsRequestError, otherVars>>

\* entry of reverse_geocode up to the loop: the range check and the cache lookup
ReverseStart(c, latitude, longitude, useCache) ==
    /\ call[c].pc \in {"idle", "done"}
    /\ LET k0 == [IdleCall EXCEPT !.op = "reverse", !.coords = <<latitude, longitude>>,
                                  !.useCache = useCache, !.retries = DEFAULT_RETRIES]
           k1 == [k0 EXCEPT !.cacheRead = useCache]
           cached == cache[ReverseCacheKey(latitude, longitude)]
       IN  call' = [call EXCEPT ![c] =
             IF ~(-90 <= latitude /\ latitude <= 90) \/ ~(-180 <= longitude /\ longitude <= 180)
             THEN [k0 EXCEPT !.pc = "done", !.result = Failure("Invalid coordinate ranges")]
             ELSE IF useCache /\ Truthy(cached)
             THEN [k1 EXCEPT !.pc = "done", !.hit = TRUE, !.result = cached]
             ELSE [k1 EXCEPT !.pc = "loop"]]
    /\ UNCHANGED <<cache, jsonErrorIsRequestError, otherVars>>

\* one iteration of the retry loop of reverse_geocode; an exception no
\* clause of the loop catches ends in the outer except Exception
ReverseAttempt(c, o) ==
    /\ call[c].pc = "loop"
    /\ call[c].op = "reverse"
    /\ LET k == [call[c] EXCEPT !.nreq = @ + 1, !.lastOutcome = o]
           result == ParseReverseGeocodingResponse(o.body)
           store == /\ o.kind = "ok"
                    /\ o.body.kind = "object"
                    /\ ShouldCache(result, k.useCache)
       IN  /\ call' = [call EXCEPT ![c] =
                CASE o.kind = "timeout" ->
                       NextIteration(k, "Request timeout", DEFAULT_RETRY_DELAY)
                  [] o.kind = "http" ->
                       IF ResponseTruthy(o) /\ o.status = 429
                       THEN NextIteration(k, "Rate limit exceeded",
                                          DEFAULT_RETRY_DELAY * (k.attempt + 1))
                       ELSE Break(k, HttpErrorText(o))
                  [] o.kind = "request" ->
                       NextIteration(k, "Request error", DEFAULT_RETRY_DELAY)
                  [] o.kind = "ok" /\ o.body.kind = "notjson" ->
                       IF jsonErrorIsRequestError
                       THEN NextIteration(k, "Request error", DEFAULT_RETRY_DELAY)
                       ELSE Break(k, "Response parsing error")
                  [] o.kind = "ok" /\ ParseRaises(o.body) ->
                       [k EXCEPT !.pc = "done", !.result = Failure("Unexpected error")]
                  [] OTHER ->
                       [k EXCEPT !.pc = "done", !.result = result, !.cacheWrote = store]]
           /\ cache' = IF store
                       THEN [cache EXCEPT ![ReverseCacheKey(k.coords[1], k.coords[2])] = result]
                       ELSE cache
    /\ UNCHANGED <<jsonErrorIsRequestError, otherVars>>

\* -------------------------------------------------------- get_directions
\* entry of get_directions up to the loop: the range checks and the cache lookup
DirectionsStart(c, start_coords, end_coords, profile, useCache) ==
    /\ call[c].pc \in {"idle", "done"}
    /\ LET start_lng == start_coords[1]
           start_lat == start_coords[2]
           end_lng == end_coords[1]
           end_lat == end_coords[2]
           k0 == [IdleCall EXCEPT !.op = "directions",
                                  !.coords = <<start_lng, start_lat, end_lng, end_lat>>,
                                  !.profile = profile,
                                  !.useCache = useCache, !.retries = DEFAULT_RETRIES]
           k1 == [k0 EXCEPT !.cacheRead = useCache]
           cached == cache[DirectionsCacheKey(start_coords, end_coords, profile)]
       IN  call' = [call EXCEPT ![c] =
             IF ~(-180 <= start_lng /\ start_lng <= 180) \/ ~(-90 <= start_lat /\ start_lat <= 90)
             THEN [k0 EXCEPT !.pc = "done", !.result = Failure("Invalid start coordinates")]
             ELSE IF ~(-180 <= end_lng /\ end_lng <= 180) \/ ~(-90 <= end_lat /\ end_lat <= 90)
             THEN [k0 EXCEPT !.pc = "done", !.result = Failure("Invalid end coordinates")]
             ELSE IF useCache /\ Truthy(cached)
             THEN [k1 EXCEPT !.pc = "done", !.hit = TRUE, !.result = cached]
             ELSE [k1 EXCEPT !.pc = "loop"]]
    /\ UNCHANGED <<cache, jsonErrorIsRequestError, otherVars>>

\* one iteration of the retry loop of get_directions
DirectionsAttempt(c, o) ==
    /\ call[c].pc = "loop"
    /\ call[c].op = "directions"
    /\ LET k == [call[c] EXCEPT !.nreq = @ + 1, !.lastOutcome = o]
           result == ParseDirectionsResponse(o.body)
           store == /\ o.kind = "ok"
                    /\ o.body.kind = "object"
                    /\ ShouldCache(result, k.useCache)
           key == DirectionsCacheKey(<<k.coords[1], k.coords[2]>>,
                                     <<k.coords[3], k.coords[4]>>, k.profile)
       IN  /\ call' = [call EXCEPT ![c] =
                CASE o.kind = "timeout" ->
                       NextIteration(k, "Request timeout", DEFAULT_RETRY_DELAY)
                  [] o.kind = "http" ->
                       IF ResponseTruthy(o) /\ o.status = 429
                       THEN NextIteration(k, "Rate limit exceeded",
                                          DEFAULT_RETRY_DELAY * (k.attempt + 1))
                       ELSE Break(k, HttpErrorText(o))
                  [] o.kind = "request" ->
                       NextIteration(k, "Request error", DEFAULT_RETRY_DELAY)
                  [] o.kind = "ok" /\ o.body.kind = "notjson" ->
                       IF jsonErrorIsRequestError
                       THEN NextIteration(k, "Request error", DEFAULT_RETRY_DELAY)
                       ELSE Break(k, "Response parsing error")
                  [] o.kind = "ok" /\ ParseRaises(o.body) ->
                       [k EXCEPT !.pc = "done", !.result = Failure("Unexpected error")]
                  [] OTHER ->
                       [k EXCEPT !.pc = "done", !.result = result, !.cacheWrote = store]]
           /\ cache' = IF store THEN [cache EXCEPT ![key] = result] ELSE cache
    /\ UNCHANGED <<jsonErrorIsRequestError, otherVars>>

\* an entry reaches its time-to-live (CACHE_TIMEOUT) or is culled
Expire(key) ==
    /\ cache[key] # NoEntry
    /\ cache' = [cache EXCEPT ![key] = NoEntry]
    /\ UNCHANGED <<call, jsonErrorIsRequestError, otherVars>>

\* clear_cache
ClearCache ==
    /\ \E key \in CacheKeys : cache[key] # NoEntry
    /\ cache' = [key \in CacheKeys |-> NoEntry]
    /\ UNCHANGED <<call, jsonErrorIsRequestError, otherVars>>

Next ==
    \/ \E c \in Callers, a \in Addresses, co \in Countries, r \in RetriesArgs, u \in BOOLEAN :
          GeocodeStart(c, a, co, r, u)
    \/ \E c \in Callers, o \in Outcomes : GeocodeAttempt(c, o)
    \/ \E key \in CacheKeys : Expire(key)
    \/ ClearCache

Spec == Init /\ [][Next]_vars

\* the three clients over the shared cache, each geocode call with the
\* default retries
NextClients ==
    \/ \E c \in Callers, a \in {<<"A">>, <<" ">>}, u \in BOOLEAN :
          GeocodeStart(c, a, <<"U", "S">>, RetriesNone, u)
    \/ \E c \in Callers, o \in Outcomes : GeocodeAttempt(c, o)
    \/ \E c \in Callers, p \in ReversePoints, u \in BOOLEAN : ReverseStart(c, p[1], p[2], u)
    \/ \E c \in Callers, o \in Outcomes : ReverseAttempt(c, o)
    \/ \E c \in Callers, a \in StartPoints, b \in EndPoints, pr \in Profiles, u \in BOOLEAN :
          DirectionsStart(c, a, b, pr, u)
    \/ \E c \in Callers, o \in DirectionsOutcomes : DirectionsAttempt(c, o)
    \/ \E key \in CacheKeys : Expire(key)
    \/ ClearCache

SpecClients == Init /\ [][NextClients]_vars

\* two threads of one process calling geocode_address over the shared Django
\* cache; the addresses they pass normalise to one cache key
ConcurrentCallers == {"c1", "c2"}

ConcurrentAddresses == { <<"A">>, <<" ", "a", " ">> }

ConcurrentOutcomes == { Outcome("timeout", 0, "none", NotJson),
                        Outcome("http", 404, "response", NotJson) }
                      \cup { Outcome("ok", 200, "response", b) :
                               b \in { NonObject, Object(<<>>), Object(<<F_ok>>), Object(<<F_edge>>) } }

InitConcurrent == /\ cache = [k \in CacheKeys |-> NoEntry]
                  /\ call = [c \in ConcurrentCallers |-> IdleCall]
                  /\ jsonErrorIsRequestError \in BOOLEAN
                  /\ acc = AccIdle
                  /\ RecordsIdle

\* each thread runs its call one step at a time: the entry with the cache
\* lookup, then one attempt with the cache write of a success
NextConcurrent ==
    \/ \E c \in ConcurrentCallers, a \in ConcurrentAddresses, u \in BOOLEAN :
          GeocodeStart(c, a, <<"U", "S">>, [given |-> TRUE, value |-> 1], u)
    \/ \E c \in ConcurrentCallers, o \in ConcurrentOutcomes : GeocodeAttempt(c, o)

SpecConcurrent == InitConcurrent /\ [][NextConcurrent]_vars

\* --------------------------------------------------- _determine_accuracy
\* layers and confidences (hundredths) a provider response carries
Layers == {"address", "venue", "street", "locality", "Address", "Venue", "Street"}
Confidences == {0, 30, 49, 50, 79, 80, 90, 100}

AccuracyInputs == { [has |-> h, label |-> <<"L">>, confidence |-> cf, layer |-> l] :
                    h \in SUBSET {"confidence", "layer"}, cf \in Confidences, l \in Layers }

InitAccuracy == /\ ClientsInit
                /\ acc \in { [props |-> p, tier |-> "none"] : p \in AccuracyInputs }
                /\ RecordsIdle

\* accuracy = self._determine_accuracy(properties)
Classify ==
    /\ acc.tier = "none"
    /\ acc' = [acc EXCEPT !.tier = DetermineAccuracy(acc.props)]
    /\ UNCHANGED <<clientVars, db, last>>

NextAccuracy == Classify

SpecAccuracy == InitAccuracy /\ [][NextAccuracy]_vars

\* ------------------------------------------------- operations on records
\* each operation runs from its call to its return statement in one step
\* and leaves its arguments, what it did and its result in last; Return is
\* the caller taking the result

\* Church.objects.create(**fields)
CreateChurch(church) ==
    /\ last = NoOperation
    /\ \E r \in { Save(db, church) } :
          /\ ~r.full
          /\ db' = r.db
          /\ last' = [op |-> "create", before |-> church, after |-> r.church, error |-> r.error]
    /\ UNCHANGED <<clientVars, acc>>

\* a caller loads church i, changes it in memory and calls save()
SaveChurch(i, edit) ==
    /\ last = NoOperation
    /\ i \in Stored(db)
    /\ \E church \in { Edit(db[i], edit) } :
       \E r \in { Save(db, church) } :
          /\ db' = r.db
          /\ last' = [op |-> "save", before |-> church, after |-> r.church, error |-> r.error]
    /\ UNCHANGED <<clientVars, acc>>

\* a caller loads church i, may change it in memory, and passes it to
\* geocode_church; the geocoder answers g if it is called
GeocodeChurch(i, edit, force_update, g) ==
    /\ last = NoOperation
    /\ i \in Stored(db)
    /\ \E church \in { Edit(db[i], edit) } :
       \E r \in { GeocodeChurchOn(db, church, force_update, g) } :
          /\ db' = r.db
          /\ last' = [op |-> "geocode_church", force_update |-> force_update,
                      before |-> church, after |-> r.church, answer |-> g,
                      calls |-> r.calls, raised |-> r.raised, result |-> r.result]
    /\ UNCHANGED <<clientVars, acc>>

GeocodeAllChurches(force_update, order, gs) ==
    /\ last = NoOperation
    /\ order \in Orders(Selection(db, force_update))
    /\ \E r \in { GeocodeAllOn(db, force_update, order, gs) } :
          /\ db' = r.db
          /\ last' = [op |-> "geocode_all_churches", force_update |-> force_update,
                      answers |-> gs, calls |-> r.calls, raised |-> r.raised,
                      result |-> r.result]
    /\ UNCHANGED <<clientVars, acc>>

ImportChurchData(church_data) ==
    /\ last = NoOperation
    /\ \E r \in { ImportOn(db, church_data) } :
          /\ ~r.full
          /\ db' = r.db
          /\ last' = [op |-> "import_church_data", church_data |-> church_data,
                      steps |-> r.steps, result |-> r.result]
    /\ UNCHANGED <<clientVars, acc>>

FixAddresses ==
    /\ last = NoOperation
    /\ \E r \in { FixAddressesOn(db, Fixes) } :
          /\ db' = r.db
          /\ last' = [op |-> "fix_addresses", before |-> db,
                      updated_count |-> r.updated_count]
    /\ UNCHANGED <<clientVars, acc>>

Return ==
    /\ last # NoOperation
    /\ last' = NoOperation
    /\ UNCHANGED <<clientVars, acc, db>>

\* the records service with an installed requests of the current release
InitRecords == Init /\ jsonErrorIsRequestError

\* creation and geocoding
NextGeocoding ==
    \/ \E church \in NewChurches : CreateChurch(church)
    \/ \E i \in Ids, edit \in {"none", "name"}, force_update \in BOOLEAN, g \in GeoResults :
          GeocodeChurch(i, edit, force_update, g)
    \/ \E force_update \in BOOLEAN :
          \E order \in Orders(Selection(db, force_update)),
             gs \in [Selection(db, force_update) -> BatchGeoResults] :
             GeocodeAllChurches(force_update, order, gs)
    \/ Return

SpecGeocoding == InitRecords /\ [][NextGeocoding]_vars

\* creation and import
NextImport ==
    \/ \E church \in NewChurches : CreateChurch(church)
    \/ \E church_data \in Batches : ImportChurchData(church_data)
    \/ Return

SpecImport == InitRecords /\ [][NextImport]_vars

\* import_church_data called again with the list of the call that has just
\* returned; first keeps what that call reported
ImportChurchDataAgain ==
    /\ last # NoOperation
    /\ last.op = "import_church_data"
    /\ \E r \in { ImportOn(db, last.church_data) } :
          /\ ~r.full
          /\ db' = r.db
          /\ last' = [op |-> "import_church_data_again", church_data |-> last.church_data,
                      first |-> [steps |-> last.steps, result |-> last.result],
                      before |-> db, steps |-> r.steps, result |-> r.result]
    /\ UNCHANGED <<clientVars, acc>>

\* creation, with and without coordinates, import, and the import repeated
NextReimport ==
    \/ \E church \in NewChurches \cup NewChurchesWithCoordinates : CreateChurch(church)
    \/ \E church_data \in Batches : ImportChurchData(church_data)
    \/ ImportChurchDataAgain
    \/ Return

SpecReimport == InitRecords /\ [][NextReimport]_vars

\* every writer of the table: creation, save, geocoding, import and
\* fix_addresses
NextRecords ==
    \/ \E church \in NewChurches \cup NewChurchesWithCoordinates : CreateChurch(church)
    \/ \E i \in Ids, edit \in Edits : SaveChurch(i, edit)
    \/ \E i \in Ids, force_update \in BOOLEAN, g \in {G_high, G_out, G_fail} :
          GeocodeChurch(i, "none", force_update, g)
    \/ \E force_update \in BOOLEAN :
          \E order \in Orders(Selection(db, force_update)),
             gs \in [Selection(db, force_update) -> {G_high, G_fail}] :
             GeocodeAllChurches(force_update, order, gs)
    \/ \E data \in {R_new, R_blank, R_inactive} : ImportChurchData(<<data>>)
    \/ FixAddresses
    \/ Return

SpecRecords == InitRecords /\ [][NextRecords]_vars

\* ------------------------------------------------------------ the views
ListChurches(state, city, has_coordinates) ==
    /\ last = NoOperation
    /\ last' = [op |-> "list", status |-> 200,
                returned |-> ListQueryset(db, state, city, has_coordinates)]
    /\ UNCHANGED <<clientVars, acc, db>>

ChurchDetail(id) ==
    /\ last = NoOperation
    /\ \E r \in { DetailResponse(db, id) } :
          last' = [op |-> "detail", id |-> id, status |-> r.status, returned |-> r.returned]
    /\ UNCHANGED <<clientVars, acc, db>>

MapChurches ==
    /\ last = NoOperation
    /\ last' = [op |-> "map", status |-> 200, returned |-> MapQueryset(db)]
    /\ UNCHANGED <<clientVars, acc, db>>

SearchChurches(q, lat, lng, radius, g) ==
    /\ last = NoOperation
    /\ \E r \in { SearchQueryset(db, q, lat, lng, radius, g) } :
          last' = [op |-> "search", q |-> q, lat |-> lat, lng |-> lng, radius |-> radius,
                   status |-> IF r.raised THEN 500 ELSE 200,
                   answer |-> g, called |-> r.called, returned |-> r.returned,
                   distance |-> r.distance]
    /\ UNCHANGED <<clientVars, acc, db>>

ChurchStats ==
    /\ last = NoOperation
    /\ last' = [op |-> "stats", status |-> 200, returned |-> {}, stats |-> StatsResponse(db)]
    /\ UNCHANGED <<clientVars, acc, db>>

\* the public reads, over a table whose churches are created active and
\* deactivated by a save or an import
NextViews ==
    \/ \E church \in ViewChurches : CreateChurch(church)
    \/ \E i \in Ids : SaveChurch(i, "inactive")
    \/ ImportChurchData(<<R_inactive>>)
    \/ \E state \in StateParams, city \in CityParams, has_coordinates \in HasCoordinatesParams :
          ListChurches(state, city, has_coordinates)
    \/ \E id \in Ids : ChurchDetail(id)
    \/ MapChurches
    \/ \E q \in QueryParams, lat \in LatParams, lng \in LngParams, radius \in RadiusParams,
          g \in SearchGeoResults : SearchChurches(q, lat, lng, radius, g)
    \/ ChurchStats
    \/ Return

SpecViews == InitRecords /\ [][NextViews]_vars

\* ------------------------------------------------- client construction
\* an api_key argument or setting: None, or a string
KeyNone == [given |-> FALSE]
Key(text) == [given |-> TRUE, value |-> text]

\* settings.OPENROUTESERVICE_API_KEY: not defined, or defined with a value
SettingAbsent == [defined |-> FALSE]
Setting(key) == [defined |-> TRUE, key |-> key]

ClientClasses == {"GeocodingService", "DirectionsService", "ReverseGeocodingService"}
ApiKeyArgs == { KeyNone, Key(""), Key("k1"), Key(" ") }
ApiKeySettings == { SettingAbsent, Setting(KeyNone), Setting(Key("")), Setting(Key("k2")),
                    Setting(Key(" ")) }

\* getattr(settings, 'OPENROUTESERVICE_API_KEY', None)
GetSetting(setting) == IF setting.defined THEN setting.key ELSE KeyNone

\* truth value of None and of a string
KeyTruthy(key) == key.given /\ key.value # ""

\* the constructor without the check: the object is built with whatever
\* key there is
NewClient_Unchecked(class, api_key, setting) ==
    LET key == IF KeyTruthy(api_key) THEN api_key ELSE GetSetting(setting)
    IN  [raised |-> "none",
         client |-> [class |-> class, api_key |-> key, Authorization |-> key]]

\* __init__ of the three clients: api_key or the setting, GeocodingError
\* when that is falsy, else the session with the Authorization header
NewClient(class, api_key, setting) ==
    LET key == IF KeyTruthy(api_key) THEN api_key ELSE GetSetting(setting)
    IN  IF ~KeyTruthy(key)
        THEN [raised |-> "GeocodingError"]
        ELSE [raised |-> "none",
              client |-> [class |-> class, api_key |-> key, Authorization |-> key]]

\* a client is constructed
Construct(class, api_key, setting) ==
    /\ last = NoOperation
    /\ last' = [op |-> "construct", class |-> class, api_key |-> api_key,
                setting |-> setting, outcome |-> NewClient(class, api_key, setting),
                sent |-> <<>>]
    /\ UNCHANGED <<clientVars, acc, db>>

\* the first request of the constructed client: session.get or session.post
\* sends the headers of the session
FirstRequest ==
    /\ last # NoOperation
    /\ last.op = "construct"
    /\ last.outcome.raised = "none"
    /\ last.sent = <<>>
    /\ last' = [last EXCEPT !.sent = <<[Authorization |-> last.outcome.client.Authorization]>>]
    /\ UNCHANGED <<clientVars, acc, db>>

NextConstruction ==
    \/ \E class \in ClientClasses, api_key \in ApiKeyArgs, setting \in ApiKeySettings :
          Construct(class, api_key, setting)
    \/ FirstRequest
    \/ Return

SpecConstruction == Init /\ [][NextConstruction]_vars

\* ------------------------------------------- _haversine_distance alone
\* points in whole degrees, as <<latitude, longitude>>: the poles, the
\* equator, the antimeridian and places in between
DistanceLatitudes == {-90, -45, 0, 40, 42, 90}
DistanceLongitudes == {-180, -83, -80, 0, 74, 180}
DistancePoints == DistanceLatitudes \X DistanceLongitudes

\* two points chosen and nothing computed yet
InitDistance == /\ ClientsInit
                /\ jsonErrorIsRequestError
                /\ acc = AccIdle
                /\ db = [i \in Ids |-> NoRecord]
                /\ last \in { [op |-> "points", a |-> a, b |-> b] :
                                a \in DistancePoints, b \in DistancePoints }

\* Church._haversine_distance called for the pair in both orders and for
\* the first point with itself
Haversine ==
    /\ last.op = "points"
    /\ last' = [op |-> "distances", a |-> last.a, b |-> last.b,
                ab |-> HaversineDistance(last.a[1], last.a[2], last.b[1], last.b[2]),
                ba |-> HaversineDistance(last.b[1], last.b[2], last.a[1], last.a[2]),
                aa |-> HaversineDistance(last.a[1], last.a[2], last.a[1], last.a[2])]
    /\ UNCHANGED <<clientVars, acc, db>>

NextDistance == Haversine

SpecDistance == InitDistance /\ [][NextDistance]_vars

\* ================================================================ claims
\* caller c takes the entry step of a call
StartStep(c) == call[c].pc \in {"idle", "done"} /\ call'[c] # call[c]

\* caller c takes an iteration of the retry loop
AttemptStep(c) == call[c].pc = "loop" /\ call'[c].nreq = call[c].nreq + 1

\* the key the specification gives: trimmed, lower-cased address and
\* lower-cased country
NormalizedKey(address, country) == <<"geocoding", Lower(Strip(address)), Lower(country)>>

AllSpaces(address) == \A i \in 1..Len(address) : address[i] = " "

Succeeded(k) == k.pc = "done" /\ ~k.raised /\ IsResult(k.result) /\ k.result.success

Failed(k) == k.pc = "done" /\ (k.raised \/ (IsResult(k.result) /\ ~k.result.success))

\* C1: a geocode call with useCache that succeeds on its first attempt has
\* issued one request and leaves its result in the cache under the
\* normalized key; every geocode call with useCache that finds an entry
\* under its normalized key returns that entry and issues no request.
C1_CachedCallsIssueNoRequest ==
    [][\A c \in Callers :
         /\ (/\ AttemptStep(c)
             /\ call[c].attempt = 0
             /\ call[c].useCache
             /\ Succeeded(call'[c]))
            => /\ call'[c].nreq = 1
               /\ cache'[NormalizedKey(call[c].addressArg, call[c].country)] = call'[c].result
         /\ (/\ StartStep(c)
             /\ call'[c].op = "geocode"
             /\ call'[c].useCache
             /\ ~AllSpaces(call'[c].addressArg)
             /\ cache[NormalizedKey(call'[c].addressArg, call'[c].country)] # NoEntry)
            => /\ call'[c].pc = "done"
               /\ call'[c].nreq = 0
               /\ call'[c].result = cache[NormalizedKey(call'[c].addressArg, call'[c].country)]
               /\ cache' = cache]_vars

\* a call for " a " with country "us" was answered from the entry that a
\* call for "A" has written (a result without label carries the address
\* of the call that produced it)
C1_Witness ==
    \E c \in Callers :
        /\ call[c].pc = "done"
        /\ call[c].hit
        /\ call[c].nreq = 0
        /\ call[c].addressArg = <<" ", "a", " ">>
        /\ call[c].country = <<"u", "s">>
        /\ call[c].result.success
        /\ call[c].result.formatted_address = <<"A">>

\* C2: every cache entry holds a result with success = true, and a step
\* that ends a geocode, reverse-geocode or directions call in failure
\* leaves the cache as it was.
C2_FailuresNeverCached ==
    /\ [](\A key \in CacheKeys : cache[key] # NoEntry => cache[key].success)
    /\ [][\A c \in Callers :
            (call[c].pc # "done" /\ Failed(call'[c])) => cache' = cache]_vars

\* a call that used the cache and issued requests has failed while the
\* cache holds an entry
C2_Witness ==
    \E c \in Callers :
        /\ call[c].op \in {"reverse", "directions"}
        /\ call[c].useCache
        /\ call[c].nreq >= 1
        /\ Failed(call[c])
        /\ \E key \in CacheKeys : cache[key] # NoEntry

\* the number of retries the caller asked for: the argument, 3 when it is
\* not given
RequestedRetries(arg) == IF arg.given THEN arg.value ELSE 3

\* C3: a geocode call issues at most maxRetries + 1 requests, maxRetries
\* being the retries argument (3 when not given); so retries = 0 allows
\* one request.
C3_AtMostRetriesPlusOneRequests ==
    \A c \in Callers :
        call[c].op = "geocode" => call[c].nreq <= RequestedRetries(call[c].retriesArg) + 1

\* C4: an attempt that gets an HTTP 429 response while retries remain does
\* not end the call: the call sleeps DEFAULT_RETRY_DELAY times the number
\* of the attempt and goes on to another request.
C4_RateLimitIsRetried ==
    [][\A c \in Callers :
         (/\ AttemptStep(c)
          /\ call[c].op = "geocode"
          /\ call'[c].lastOutcome.kind = "http"
          /\ call'[c].lastOutcome.status = 429
          /\ call'[c].lastOutcome.resp # "none"
          /\ call[c].attempt < RequestedRetries(call[c].retriesArg))
         => /\ call'[c].pc = "loop"
            /\ call'[c].delays = Append(call[c].delays, 1 * (call[c].attempt + 1))]_vars

\* C5: a timeout or a generic network error on an attempt that is not the
\* last allowed one is followed by one sleep of 1 second and another
\* iteration, and uses up one retry.
C5_TransientErrorRetriedAfterFixedDelay ==
    [][\A c \in Callers :
         (/\ AttemptStep(c)
          /\ call[c].op = "geocode"
          /\ call'[c].lastOutcome.kind \in {"timeout", "request"}
          /\ call[c].attempt < RequestedRetries(call[c].retriesArg))
         => /\ call'[c].pc = "loop"
            /\ call'[c].delays = Append(call[c].delays, 1)
            /\ call'[c].attempt = call[c].attempt + 1
            /\ call'[c].retries = call[c].retries
            /\ call'[c].nreq = call[c].nreq + 1
            /\ cache' = cache]_vars

\* a call passed retries = 2 is in its third iteration after a timeout
\* and a network error, with two sleeps of 1 second
C5_Witness ==
    \E c \in Callers :
        /\ call[c].pc = "loop"
        /\ call[c].retriesArg = [given |-> TRUE, value |-> 2]
        /\ call[c].attempt = 2
        /\ call[c].nreq = 2
        /\ call[c].delays = <<1, 1>>
        /\ call[c].lastOutcome.kind = "request"
        /\ call[c].lastError = "Request error"

\* C6: an attempt that gets an HTTP error with a status other than 429
\* ends the call with a failure: no sleep, no further iteration.
C6_OtherHttpErrorFailsFast ==
    [][\A c \in Callers :
         (/\ AttemptStep(c)
          /\ call[c].op = "geocode"
          /\ call'[c].lastOutcome.kind = "http"
          /\ call'[c].lastOutcome.status # 429)
         => /\ Failed(call'[c])
            /\ ~call'[c].raised
            /\ call'[c].delays = call[c].delays
            /\ cache' = cache]_vars

\* a call with three retries left has ended on the HTTP 500 response to its
\* first request, without a sleep
C6_Witness ==
    \E c \in Callers :
        /\ call[c].pc = "done"
        /\ call[c].lastOutcome = Outcome("http", 500, "response", NotJson)
        /\ call[c].retries = 3
        /\ call[c].nreq = 1
        /\ call[c].delays = <<>>
        /\ ~call[c].result.success

\* C7: an attempt whose response body cannot be decoded ends the call with
\* a failure after that attempt, whatever retries are left.
C7_UndecodableBodyFailsFast ==
    [][\A c \in Callers :
         (/\ AttemptStep(c)
          /\ call[c].op = "geocode"
          /\ call'[c].lastOutcome.kind = "ok"
          /\ call'[c].lastOutcome.body.kind = "notjson")
         => /\ Failed(call'[c])
            /\ ~call'[c].raised
            /\ call'[c].delays = call[c].delays]_vars

\* the cause a transient outcome is reported with
TransientCause(o) == CASE o.kind = "timeout" -> "Request timeout"
                       [] o.kind = "request" -> "Request error"
                       [] OTHER -> "Rate limit exceeded"

IsTransient(o) == \/ o.kind \in {"timeout", "request"}
                  \/ o.kind = "http" /\ o.status = 429 /\ ResponseTruthy(o)

\* C8: no geocode call ends by raising, and a call that has ended after
\* retries + 1 requests, the last of them failing with a transient error,
\* has a result with success = false whose cause is that of the last
\* attempt.
C8_NeverRaisesAndReportsLastCause ==
    \A c \in Callers :
        call[c].op = "geocode" =>
            /\ ~call[c].raised
            /\ (/\ call[c].pc = "done"
                /\ call[c].nreq = call[c].retries + 1
                /\ IsTransient(call[c].lastOutcome))
               => /\ ~call[c].result.success
                  /\ call[c].result.attempts = call[c].retries + 1
                  /\ call[c].result.cause = TransientCause(call[c].lastOutcome)

\* C9: a geocode call with an empty or all-blank address ends in its entry
\* step with success = false, without a request, a cache read, a cache
\* write or a sleep.
C9_BlankAddressFailsAtOnce ==
    [][\A c \in Callers :
         (/\ StartStep(c)
          /\ call'[c].op = "geocode"
          /\ AllSpaces(call'[c].addressArg))
         => /\ call'[c].pc = "done"
            /\ ~call'[c].raised
            /\ call'[c].result = Failure("Address cannot be empty")
            /\ call'[c].nreq = 0
            /\ ~call'[c].cacheRead
            /\ ~call'[c].cacheWrote
            /\ call'[c].delays = <<>>
            /\ cache' = cache]_vars

\* a call with the address " " and useCache has ended with the failure
\* while the cache holds an entry
C9_Witness ==
    \E c \in Callers :
        /\ call[c].pc = "done"
        /\ call[c].addressArg = <<" ">>
        /\ call[c].useCache
        /\ call[c].result = Failure("Address cannot be empty")
        /\ call[c].nreq = 0
        /\ \E key \in CacheKeys : cache[key] # NoEntry

InRange(latitude, longitude) ==
    /\ -90 <= latitude /\ latitude <= 90
    /\ -180 <= longitude /\ longitude <= 180

\* C10: every successful geocode result and every cached geocode result
\* has its latitude in [-90, 90] and its longitude in [-180, 180]; the
\* result of an attempt that got a JSON object succeeds exactly when the
\* first feature has two numeric coordinates in range, and then carries
\* them unchanged.
C10_CoordinatesValidAndUnchanged ==
    /\ [](\A c \in Callers :
            (call[c].op = "geocode" /\ Succeeded(call[c]))
            => InRange(call[c].result.latitude, call[c].result.longitude))
    /\ [](\A key \in CacheKeys :
            (key[1] = "geocoding" /\ cache[key] # NoEntry)
            => InRange(cache[key].latitude, cache[key].longitude))
    /\ [][\A c \in Callers :
            (/\ AttemptStep(c)
             /\ call[c].op = "geocode"
             /\ call'[c].lastOutcome.kind = "ok"
             /\ call'[c].lastOutcome.body.kind = "object")
            => LET fs == call'[c].lastOutcome.body.features
                   valid == /\ Len(fs) >= 1
                            /\ Len(fs[1].coords) >= 2
                            /\ fs[1].numeric
                            /\ InRange(fs[1].coords[2], fs[1].coords[1])
               IN  /\ call'[c].pc = "done"
                   /\ ~call'[c].raised
                   /\ call'[c].result.success = valid
                   /\ valid => /\ call'[c].result.latitude = fs[1].coords[2]
                                /\ call'[c].result.longitude = fs[1].coords[1]]_vars

\* a call has succeeded with the coordinates on the edge of the ranges
C10_Witness ==
    \E c \in Callers :
        /\ call[c].op = "geocode"
        /\ Succeeded(call[c])
        /\ call[c].nreq >= 1
        /\ call[c].lastOutcome.body = Object(<<F_edge>>)
        /\ call[c].result.latitude = 90
        /\ call[c].result.longitude = -180

\* the layer and the confidence the classifier is given: a missing layer
\* is the empty string, a missing confidence is 0, and layer names are
\* compared without regard to case
GivenLayer(props) == IF "layer" \in props.has THEN LayerLower(props.layer) ELSE ""
GivenConfidence(props) == IF "confidence" \in props.has THEN props.confidence ELSE 0

\* C11: the tier is "high" iff the layer is address or venue and the
\* confidence is at least 0.8; otherwise "medium" iff the layer is street
\* or the confidence is at least 0.5; otherwise "low".  So (venue, 0.8) is
\* "high" and (address, 0.3) is "low".
C11_AccuracyTiers ==
    acc.tier # "none" =>
        LET l == GivenLayer(acc.props)
            cf == GivenConfidence(acc.props)
            high == l \in {"address", "venue"} /\ cf >= 80
            medium == ~high /\ (l = "street" \/ cf >= 50)
        IN  /\ (acc.tier = "high") <=> high
            /\ (acc.tier = "medium") <=> medium
            /\ (acc.tier = "low") <=> (~high /\ ~medium)
            /\ (l = "venue" /\ cf = 80) => acc.tier = "high"
            /\ (l = "address" /\ cf = 30) => acc.tier = "low"

\* the classifier has answered "high" for the layer venue with the
\* confidence 0.8, which also passes the medium test
C11_Witness ==
    /\ acc.tier = "high"
    /\ acc.props.has = {"confidence", "layer"}
    /\ acc.props.layer = "venue"
    /\ acc.props.confidence = 80

\* a step that is a whole call of the named operation
OperationStep(op) == last = NoOperation /\ last'.op = op

\* the latest operation is the named one
LastWas(op) == last # NoOperation /\ last.op = op

\* latitude, longitude and accuracy of the two instances are the same
SameCoordinates(a, b) ==
    /\ a.latitude = b.latitude
    /\ a.longitude = b.longitude
    /\ a.geocoding_accuracy = b.geocoding_accuracy

\* C12: geocode_church on a church that has coordinates, with force_update
\* false, calls the geocoder zero times, returns success=true with
\* skipped=true, and leaves the latitude, longitude and accuracy of the
\* instance as they were and the table untouched.
C12_SkipsChurchWithCoordinates ==
    [][ (OperationStep("geocode_church") /\ HasCoordinates(last'.before)
         /\ ~last'.force_update)
        => /\ last'.calls = <<>>
           /\ ~last'.raised
           /\ last'.result.success
           /\ Skipped(last'.result)
           /\ SameCoordinates(last'.after, last'.before)
           /\ db' = db ]_vars

\* geocode_church has skipped a church with coordinates
C12_Witness ==
    /\ LastWas("geocode_church")
    /\ HasCoordinates(last.before)
    /\ ~last.force_update
    /\ Skipped(last.result)

\* C13: whenever geocode_church returns success=false (the geocoder
\* returned a failure, or set_coordinates or save() rejected the
\* coordinates), the latitude, longitude and accuracy of the instance and
\* the table are the same as before the call, and the result carries the
\* error.
C13_FailureLeavesChurchUnchanged ==
    [][ (OperationStep("geocode_church") /\ ~last'.raised /\ ~last'.result.success)
        => /\ SameCoordinates(last'.after, last'.before)
           /\ db' = db
           /\ last'.result.message \in {"Geocoding failed", "Error saving coordinates"} ]_vars

\* geocode_church failed without touching the instance or the table
C13_FailureSeen ==
    /\ LastWas("geocode_church")
    /\ ~last.raised
    /\ ~last.result.success
    /\ SameCoordinates(last.after, last.before)

\* the stored Decimal d is the float x rounded to seven decimal places,
\* halves going to the even neighbour
RoundedTo7(d, x) ==
    LET k == d.units * x.sign - x.units
    IN  /\ k \in {0, 1}
        /\ k = 0 => x.eighth <= 5
        /\ k = 1 => x.eighth >= 5
        /\ x.eighth = 5 => (x.units + k) % 2 = 0

\* the row of the church has the answer's coordinates and tier
StoredAnswer(row, answer) ==
    /\ row # NoRecord
    /\ row.latitude # Null /\ RoundedTo7(row.latitude, answer.latitude)
    /\ row.longitude # Null /\ RoundedTo7(row.longitude, answer.longitude)
    /\ row.geocoding_accuracy = answer.accuracy

\* C14 as stated: when geocode_church calls the geocoder and the geocoder
\* answers with a success, the stored church afterwards has the answer's
\* latitude and longitude, quantized to 7 decimal places, and its tier.
C14_GeocoderSuccessIsStored ==
    [][ (OperationStep("geocode_church") /\ last'.calls # <<>> /\ ~last'.raised
         /\ last'.answer.success)
        => StoredAnswer(db'[last'.before.pk], last'.answer) ]_vars

\* C14 amended: when geocode_church calls the geocoder and returns
\* success=true, the stored church afterwards has the answer's latitude
\* and longitude, quantized to 7 decimal places, and its tier, whatever
\* coordinates it had before; when the geocoder answered with a success
\* and geocode_church returns success=false, the stored church is as before.
C14_SuccessIsStored ==
    [][ (OperationStep("geocode_church") /\ last'.calls # <<>> /\ ~last'.raised
         /\ last'.answer.success)
        => IF last'.result.success
           THEN StoredAnswer(db'[last'.before.pk], last'.answer)
           ELSE db' = db ]_vars

\* geocode_church replaced the coordinates of a church that had some
C14_Witness ==
    /\ LastWas("geocode_church")
    /\ last.calls # <<>>
    /\ ~last.raised
    /\ last.result.success
    /\ HasCoordinates(last.before)
    /\ last.before.latitude # last.after.latitude
    /\ db[last.before.pk].latitude = last.after.latitude

\* the churches the geocoder was called for, in order
CalledFor(calls) == [i \in 1..Len(calls) |-> calls[i].pk]

\* C15: geocode_all_churches calls the geocoder exactly once for each active
\* church without coordinates (for each active church when force_update),
\* and for no other church; its summary has successful + failed + skipped
\* = total = the size of the selection; with an empty selection it makes
\* no call and returns success with all counts 0.
C15_OneCallPerSelectedChurch ==
    [][ OperationStep("geocode_all_churches")
        => LET selection == IF last'.force_update
                            THEN { i \in Stored(db) : db[i].is_active }
                            ELSE { i \in Stored(db) : db[i].is_active /\ ~HasCoordinates(db[i]) }
               called == CalledFor(last'.calls)
               result == last'.result
           IN  /\ ~last'.raised
               /\ { called[i] : i \in 1..Len(called) } = selection
               /\ Len(called) = Cardinality(selection)
               /\ result.success
               /\ result.total = Cardinality(selection)
               /\ result.successful + result.failed + result.skipped = result.total
               /\ selection = {} => /\ called = <<>>
                                    /\ result.successful = 0
                                    /\ result.failed = 0
                                    /\ result.skipped = 0 ]_vars

\* the same for the calls in which no exception leaves the geocoder
C15_WhenGeocoderReturns ==
    [][ (OperationStep("geocode_all_churches") /\ ~last'.raised)
        => LET selection == IF last'.force_update
                            THEN { i \in Stored(db) : db[i].is_active }
                            ELSE { i \in Stored(db) : db[i].is_active /\ ~HasCoordinates(db[i]) }
               called == CalledFor(last'.calls)
               result == last'.result
           IN  /\ { called[i] : i \in 1..Len(called) } = selection
               /\ Len(called) = Cardinality(selection)
               /\ result.success
               /\ result.total = Cardinality(selection)
               /\ result.successful + result.failed + result.skipped = result.total ]_vars

\* a required field of the row is missing or blank once trimmed
MissingRequired(data) ==
    \E key \in RequiredKeys : Strip(PropGet(data, key, <<>>)) = <<>>

\* the stored churches whose name, street address, city and state are the
\* trimmed ones of the row
SameKey(d, data) ==
    { i \in Stored(d) : \A key \in RequiredKeys : d[i][key] = Strip(PropGet(data, key, <<>>)) }

\* the optional values of the row pass the field validators
RowValidates(data) == "zip_code" \in data.has => Len(data.zip_code) <= 10

\* row i of the batch failed, changed nothing and has its error recorded
FailedRow(i, step, result) ==
    /\ step.outcome = "failed"
    /\ step.after = step.before
    /\ \E j \in 1..Len(result.failed_records) :
          result.failed_records[j].index = i /\ result.failed_records[j].error # ""

\* C16 as stated: for a non-empty batch import_church_data goes through every
\* row: a row whose name, street address, city or state is empty after
\* trimming is counted failed with its error and creates or changes no
\* church, every other row is created or updated, created + updated +
\* failed = number of rows, and the result has success=true.
C16_ValidRowsAreCreatedOrUpdated ==
    [][ (OperationStep("import_church_data") /\ last'.church_data # <<>>)
        => LET rows == last'.church_data
               steps == last'.steps
               result == last'.result
           IN  /\ Len(steps) = Len(rows)
               /\ \A i \in 1..Len(rows) :
                     IF MissingRequired(rows[i]) THEN FailedRow(i, steps[i], result)
                     ELSE steps[i].outcome \in {"created", "updated"}
               /\ result.created + result.updated + result.failed = Len(rows)
               /\ result.success ]_vars

\* C16 amended: for a non-empty batch import_church_data goes through every
\* row and never aborts: a row whose name, street address, city or state
\* is empty after trimming, a row that validation rejects, and a row whose
\* key is the key of more than one stored church are each counted failed
\* with their error and create or change no church; every other row is
\* created or updated; created + updated + failed = number of rows, and
\* the result has success=true even when rows failed.
C16_EveryRowIsCounted ==
    [][ (OperationStep("import_church_data") /\ last'.church_data # <<>>)
        => LET rows == last'.church_data
               steps == last'.steps
               result == last'.result
           IN  /\ Len(steps) = Len(rows)
               /\ \A i \in 1..Len(rows) :
                     IF \/ MissingRequired(rows[i])
                        \/ ~RowValidates(rows[i])
                        \/ Cardinality(SameKey(steps[i].before, rows[i])) > 1
                     THEN FailedRow(i, steps[i], result)
                     ELSE steps[i].outcome \in {"created", "updated"}
               /\ result.created + result.updated + result.failed = Len(rows)
               /\ result.total = Len(rows)
               /\ result.failed = Len(result.failed_records)
               /\ result.success ]_vars

\* a batch with a row without a name and a row that was created
C16_Witness ==
    /\ LastWas("import_church_data")
    /\ Len(last.church_data) = 2
    /\ MissingRequired(last.church_data[1])
    /\ last.steps[1].outcome = "failed"
    /\ last.steps[2].outcome = "created"
    /\ last.result.success

\* C17: import_church_data with an empty list returns success=false with
\* the message that no data was provided and all counts 0, and leaves the
\* table as it was; no other list gives success=false.
C17_OnlyEmptyListFails ==
    [][ OperationStep("import_church_data")
        => LET result == last'.result
           IN  /\ last'.church_data = <<>>
                  => /\ ~result.success
                     /\ result.message = "No church data provided"
                     /\ result.total = 0 /\ result.created = 0
                     /\ result.updated = 0 /\ result.failed = 0
                     /\ db' = db
               /\ ~result.success => last'.church_data = <<>> ]_vars

\* the empty list was imported into a table that has churches
C17_Witness ==
    /\ LastWas("import_church_data")
    /\ last.church_data = <<>>
    /\ ~last.result.success
    /\ Stored(db) # {}

\* the optional fields of new are those of old, replaced by the values the
\* row has; nothing else differs
UpdatedFrom(old, new, data) ==
    new = [old EXCEPT !.zip_code = PropGet(data, "zip_code", @),
                      !.phone = PropGet(data, "phone", @),
                      !.website = PropGet(data, "website", @),
                      !.email = PropGet(data, "email", @),
                      !.service_times = PropGet(data, "service_times", @),
                      !.is_active = PropGet(data, "is_active", @)]

\* new is a church with the trimmed key and the values of the row
CreatedFrom(new, data) ==
    /\ \A key \in RequiredKeys : new[key] = Strip(data[key])
    /\ new.zip_code = PropGet(data, "zip_code", <<>>)
    /\ new.phone = PropGet(data, "phone", "")
    /\ new.website = PropGet(data, "website", "")
    /\ new.email = PropGet(data, "email", "")
    /\ new.service_times = PropGet(data, "service_times", "")
    /\ new.is_active = PropGet(data, "is_active", TRUE)
    /\ ~HasCoordinates(new)

\* the row was upserted: a church with its key took its values and no
\* church was added, or no church had its key and exactly one was added
Upserted(before, after, data) ==
    IF SameKey(before, data) # {}
    THEN /\ Stored(after) = Stored(before)
         /\ \E j \in SameKey(before, data) :
               /\ UpdatedFrom(before[j], after[j], data)
               /\ \A k \in Stored(before) \ {j} : after[k] = before[k]
    ELSE /\ Cardinality(Stored(after)) = Cardinality(Stored(before)) + 1
         /\ \A k \in Stored(before) : after[k] = before[k]
         /\ \A j \in Stored(after) \ Stored(before) : CreatedFrom(after[j], data)

\* C18: for a row with a name, street address, city and state, if a church
\* with the same trimmed key is stored, import_church_data updates its zip,
\* phone, website, email, service times and active flag from the row and
\* the number of churches stays; otherwise exactly one church is created
\* with the values of the row.
C18_UpsertByKey ==
    [][ OperationStep("import_church_data")
        => \A i \in 1..Len(last'.steps) :
              ~MissingRequired(last'.church_data[i])
              => Upserted(last'.steps[i].before, last'.steps[i].after, last'.church_data[i]) ]_vars

\* the same for the rows that validation accepts and whose key is the key
\* of at most one stored church
C18_WhenKeyIsUnique ==
    [][ OperationStep("import_church_data")
        => \A i \in 1..Len(last'.steps) :
              (/\ ~MissingRequired(last'.church_data[i])
               /\ RowValidates(last'.church_data[i])
               /\ Cardinality(SameKey(last'.steps[i].before, last'.church_data[i])) <= 1)
              => Upserted(last'.steps[i].before, last'.steps[i].after, last'.church_data[i]) ]_vars

\* exactly one of latitude and longitude is set
LoneCoordinate(church) == (church.latitude = Null) # (church.longitude = Null)

\* latitude and longitude are both absent, or both set and in range
CoordinatesValid(church) ==
    \/ church.latitude = Null /\ church.longitude = Null
    \/ /\ church.latitude # Null /\ church.longitude # Null
       /\ -90 * Degree <= church.latitude.units /\ church.latitude.units <= 90 * Degree
       /\ -180 * Degree <= church.longitude.units /\ church.longitude.units <= 180 * Degree

\* C19: after any sequence of creations, saves, imports, geocode_church and
\* geocode_all_churches calls and address fixes, every stored church has
\* latitude and longitude both set (latitude in [-90, 90], longitude in
\* [-180, 180]) or both absent; creating or saving a church with exactly
\* one of them set fails validation and leaves the table as it was.
C19_CoordinatesComeInPairs ==
    /\ [](\A i \in Stored(db) : CoordinatesValid(db[i]))
    /\ [][ ((OperationStep("save") \/ OperationStep("create")) /\ LoneCoordinate(last'.before))
           => last'.error /\ db' = db ]_vars

\* a save of a church with a latitude only was rejected while the table
\* holds a church with coordinates
C19_Witness ==
    /\ LastWas("save")
    /\ last.before.latitude # Null /\ last.before.longitude = Null
    /\ last.error
    /\ \E i \in Stored(db) : HasCoordinates(db[i])

\* the steps that are a public read
ReadStep == last = NoOperation /\ last'.op \in {"list", "detail", "map", "search", "stats"}

\* C20: no public read (list, detail, map list, search by coordinates,
\* search by text with its geocode fallback, statistics) returns or counts
\* a church whose is_active is false; the detail of an inactive id answers
\* 404; a church deactivated by an import or a save is in none of them.
C20_ReadsSeeActiveChurchesOnly ==
    [][ ReadStep
        => /\ \A i \in last'.returned : i \in Stored(db) /\ db[i].is_active
           /\ last'.op = "detail"
              => (last'.status = 404) = ~(last'.id \in Stored(db) /\ db[last'.id].is_active)
           /\ last'.op = "stats"
              => LET active == { i \in Stored(db) : db[i].is_active }
                     stats == last'.stats
                 IN  /\ stats.total_churches = Cardinality(active)
                     /\ stats.churches_with_coordinates
                           = Cardinality({ i \in active : HasCoordinates(db[i]) })
                     /\ DOMAIN stats.states = { db[i].state : i \in active }
                     /\ \A st \in DOMAIN stats.states :
                           stats.states[st].total
                              = Cardinality({ i \in active : db[i].state = st }) ]_vars

\* a search around the place of a church that was deactivated returns the
\* active church at that place and not the deactivated one
C20_Witness ==
    /\ LastWas("search")
    /\ last.lat # <<>> /\ last.lng # <<>>
    /\ last.returned # {}
    /\ \E i \in Stored(db) :
          /\ ~db[i].is_active
          /\ i \notin last.returned
          /\ \E j \in last.returned : SameCoordinates(db[i], db[j])

\* street address, city, state or zip code of the two instances differ
AddressChanged(old, new) ==
    \/ old.street_address # new.street_address
    \/ old.city # new.city
    \/ old.state # new.state
    \/ old.zip_code # new.zip_code

\* C21: every church whose street address, city, state or zip code a run of
\* fix_addresses changes is stored by that run with latitude and longitude
\* both absent, so it keeps no coordinates of its old address, and if it is
\* active geocode_all_churches(force_update=False) selects it next.
C21_FixClearsCoordinates ==
    [][ OperationStep("fix_addresses")
        => \A i \in Stored(db) :
              AddressChanged(db[i], db'[i])
              => /\ db'[i].latitude = Null
                 /\ db'[i].longitude = Null
                 /\ db'[i].is_active => i \in Selection(db', FALSE) ]_vars

\* fix_addresses changed the address of an active church that had
\* coordinates
C21_Witness ==
    /\ LastWas("fix_addresses")
    /\ last.updated_count = 1
    /\ \E i \in Stored(db) :
          /\ HasCoordinates(last.before[i])
          /\ AddressChanged(last.before[i], db[i])
          /\ db[i].is_active

\* float(radius), or 50 where it raises or no radius is given
RadiusKm(radius) == IF radius # <<>> /\ ParseFloat(radius).ok THEN ParseFloat(radius).value ELSE 50

\* a step that is a search with lat and lng that parse as numbers
CoordinateSearchStep ==
    /\ OperationStep("search")
    /\ last'.lat # <<>> /\ last'.lng # <<>>
    /\ ParseFloat(last'.lat).ok /\ ParseFloat(last'.lng).ok

\* the church lies in the rectangle of radius_km / 111.32 degrees of
\* latitude and radius_km / (111.32 cos(latitude)) degrees of longitude
\* around the point
InBoundingBox(church, latitude, longitude, radius_km) ==
    LET Within(x, centre, delta) == centre - delta <= x /\ x <= centre + delta
    IN  /\ HasCoordinates(church)
        /\ Within(church.latitude.units, latitude * Degree, radius_km * UnitsPerKm)
        /\ Within(church.longitude.units, longitude * Degree,
                  ((radius_km * UnitsPerKm) \div 100) * SecCenti(latitude))

TextSearchStep ==
    /\ OperationStep("search")
    /\ ~(last'.lat # <<>> /\ last'.lng # <<>>)
    /\ last'.q # <<>>

\* name, city, state or street address has a piece that is the query but
\* for the case of its letters
ContainsQuery(church, q) ==
    \E field \in {church.name, church.city, church.state, church.street_address} :
       \E i \in 1..Len(field) : \E j \in i..Len(field) :
          Lower(SubSeq(field, i, j)) = Lower(q)

\* the active churches the query matches
TextMatches(d, q) == { i \in Stored(d) : d[i].is_active /\ ContainsQuery(d[i], q) }

\* C23 as stated: in a search by text the geocoder is called if and only if
\* the query matches no active church; when it matches some, exactly the
\* matching active churches are returned, without a distance and without a
\* geocoder call.
C23_GeocoderCalledIffNoMatch ==
    [][ TextSearchStep
        => /\ last'.called <=> (TextMatches(db, last'.q) = {})
           /\ TextMatches(db, last'.q) # {}
              => /\ last'.returned = TextMatches(db, last'.q)
                 /\ \A i \in last'.returned : last'.distance[i] = Null ]_vars

\* C23, amended: in a search by text the geocoder is called if and only if
\* the query matches no active church and a geocoding client can be
\* constructed; when the query matches some, exactly the matching active
\* churches are returned, without a distance and without a geocoder call.
C23_GeocoderCalledIffNoMatchAndService ==
    [][ TextSearchStep
        => /\ last'.called <=> (TextMatches(db, last'.q) = {} /\ last'.answer # NoService)
           /\ TextMatches(db, last'.q) # {}
              => /\ last'.returned = TextMatches(db, last'.q)
                 /\ \A i \in last'.returned : last'.distance[i] = Null ]_vars

\* a search by text, with a latitude but no longitude, returned the one
\* church of two active ones that the query matches, whatever the case
C23_Witness ==
    /\ LastWas("search")
    /\ last.q = <<"n">> /\ last.lat # <<>> /\ last.lng = <<>>
    /\ ~last.called
    /\ Cardinality(last.returned) = 1
    /\ \E i \in Stored(db) : db[i].is_active /\ i \notin last.returned

\* a search by text that matched no church did not call the geocoder
\* because no geocoding client could be constructed
C23_NoServiceSeen ==
    /\ LastWas("search")
    /\ last.q # <<>> /\ last.lat = <<>>
    /\ last.answer = NoService
    /\ ~last.called
    /\ TextMatches(db, last.q) = {}
    /\ \E i \in Stored(db) : db[i].is_active

\* the cases in which a search has nothing to return: lat and lng given but
\* not both numbers; a query that matches no church while no geocoding
\* client can be constructed or the geocoder does not succeed; neither
\* coordinates nor a query
NothingToReturn(d, search) ==
    IF search.lat # <<>> /\ search.lng # <<>>
    THEN ~(ParseFloat(search.lat).ok /\ ParseFloat(search.lng).ok)
    ELSE IF search.q # <<>>
    THEN /\ TextMatches(d, search.q) = {}
         /\ \/ search.answer \in {NoService, GeoRaise}
            \/ ~search.answer.success
    ELSE TRUE

\* C24: a search lets no exception escape (it answers 200), and it returns
\* nothing when lat and lng are both given but are not numbers, whatever
\* the query; when the query matches no church and the geocoder fails or
\* no geocoding client can be constructed; and when neither coordinates
\* nor a query are given.
C24_SearchNeverRaises ==
    [][ OperationStep("search")
        => /\ last'.status = 200
           /\ NothingToReturn(db, last') => last'.returned = {} ]_vars

\* the same for the searches in which no exception leaves the geocoder
C24_WhenGeocoderReturns ==
    [][ (OperationStep("search") /\ last'.answer # GeoRaise)
        => /\ last'.status = 200
           /\ NothingToReturn(db, last') => last'.returned = {} ]_vars

\* a search whose lat is no number returned nothing although its query
\* matches an active church
C24_InvalidCoordinatesSeen ==
    /\ LastWas("search")
    /\ last.lat = <<"a">> /\ last.lng # <<>>
    /\ TextMatches(db, last.q) # {}
    /\ last.status = 200 /\ last.returned = {}

\* ------------------------------------------------------------------ C25
\* the cache key both threads of SpecConcurrent use
ConcurrentKey == GetCacheKey(<<"A">>, <<"U", "S">>)

\* a result dictionary: a success with its coordinates, or a failure with
\* its error text
WellFormed(r) == /\ IsResult(r)
                 /\ r.success => {"latitude", "longitude"} \subseteq DOMAIN r
                 /\ ~r.success => "error" \in DOMAIN r

\* C25: with two threads geocoding the same address, in every interleaving
\* each call that has ended returned a well-formed success or failure, and
\* the cache holds for the key either nothing or one successful result.
C25_ConcurrentCallsReturnResults ==
    /\ \A c \in DOMAIN call :
         call[c].pc = "done" => ~call[c].raised /\ WellFormed(call[c].result)
    /\ \A key \in CacheKeys :
         cache[key] # NoEntry => WellFormed(cache[key]) /\ cache[key].success

\* what holds of C25 for the calls the parser lets return: their results are
\* well formed, and the cache holds nothing or one successful result; a
\* call that finds the entry returns it
C25_WhenParserReturns ==
    /\ \A c \in DOMAIN call :
         call[c].pc = "done" /\ ~call[c].raised => WellFormed(call[c].result)
    /\ \A key \in CacheKeys :
         cache[key] # NoEntry => WellFormed(cache[key]) /\ cache[key].success
    /\ \A c \in DOMAIN call : call[c].hit => call[c].result.success

\* the race of C25: both threads missed the cache for the one key, each
\* sent its own request, and both wrote their success
C25_BothMissedBothRequested ==
    /\ DOMAIN call = ConcurrentCallers
    /\ \A c \in ConcurrentCallers :
         /\ call[c].pc = "done"
         /\ call[c].op = "geocode"
         /\ GetCacheKey(call[c].address, call[c].country) = ConcurrentKey
         /\ call[c].cacheRead /\ ~call[c].hit
         /\ call[c].nreq = 1
         /\ call[c].cacheWrote
    /\ call["c1"].result # call["c2"].result
    /\ cache[ConcurrentKey] = call["c2"].result

\* ------------------------------------------------------------------ C26
\* the coordinates a reverse_geocode or get_directions call was given are
\* outside the ranges
CoordinatesOutOfRange(k) ==
    CASE k.op = "reverse" -> ~InRange(k.coords[1], k.coords[2])
      [] k.op = "directions" -> ~InRange(k.coords[2], k.coords[1]) \/ ~InRange(k.coords[4], k.coords[3])
      [] OTHER -> FALSE

\* C26: every step of a reverse_geocode call with latitude or longitude out
\* of range, or of a get_directions call with an endpoint out of range, is
\* its entry step, which ends the call with success = false: no request, no
\* cache read, no cache write, no sleep, and the cache as it was.
C26_OutOfRangeFailsAtOnce ==
    [][\A c \in Callers :
         (call'[c] # call[c] /\ CoordinatesOutOfRange(call'[c]))
         => /\ call'[c].pc = "done"
            /\ ~call'[c].raised
            /\ IsResult(call'[c].result)
            /\ ~call'[c].result.success
            /\ call'[c].nreq = 0
            /\ call'[c].attempt = 0
            /\ ~call'[c].cacheRead
            /\ ~call'[c].cacheWrote
            /\ ~call'[c].hit
            /\ call'[c].delays = <<>>
            /\ cache' = cache]_vars

\* a reverse_geocode call with latitude 91 and use_cache has ended with the
\* failure while the cache holds an entry
C26_Witness ==
    \E c \in Callers :
        /\ call[c].pc = "done"
        /\ call[c].op = "reverse"
        /\ call[c].coords = <<91, 0>>
        /\ call[c].useCache
        /\ call[c].result = Failure("Invalid coordinate ranges")
        /\ call[c].nreq = 0
        /\ \E key \in CacheKeys : cache[key] # NoEntry

\* a get_directions call whose start is in range and whose end has latitude
\* 91 has ended with the failure
C26_DirectionsSeen ==
    \E c \in Callers :
        /\ call[c].pc = "done"
        /\ call[c].op = "directions"
        /\ call[c].coords = <<-74, 40, 0, 91>>
        /\ call[c].useCache
        /\ call[c].result = Failure("Invalid end coordinates")
        /\ call[c].nreq = 0

\* ------------------------------------------------------------------ C27
\* no key was passed and none, or an empty one, is configured
NoApiKey(api_key, setting) ==
    /\ api_key = KeyNone \/ api_key = Key("")
    /\ setting = SettingAbsent \/ setting = Setting(KeyNone) \/ setting = Setting(Key(""))

\* C27: constructing one of the three clients with no API key raises
\* GeocodingError in the constructor; every client that was constructed
\* holds a non-empty key, and every request it sends carries that key.
C27_NoClientWithoutKey ==
    (last # NoOperation /\ last.op = "construct")
    => /\ NoApiKey(last.api_key, last.setting)
          => last.outcome.raised = "GeocodingError" /\ last.sent = <<>>
       /\ last.outcome.raised = "none"
          => /\ last.outcome.client.api_key.given
             /\ last.outcome.client.api_key.value # ""
             /\ \A i \in DOMAIN last.sent :
                  /\ last.sent[i].Authorization = last.outcome.client.api_key
                  /\ last.sent[i].Authorization \in {last.api_key, GetSetting(last.setting)}

\* a ReverseGeocodingService built with api_key = '' and the setting ''
\* raised, and nothing was sent
C27_Witness ==
    /\ last # NoOperation
    /\ last.op = "construct"
    /\ last.class = "ReverseGeocodingService"
    /\ last.api_key = Key("")
    /\ last.setting = Setting(Key(""))
    /\ last.outcome.raised = "GeocodingError"
    /\ last.sent = <<>>

\* a DirectionsService built without an argument took the configured key
\* and sent it
C27_ConfiguredKeySent ==
    /\ last # NoOperation
    /\ last.op = "construct"
    /\ last.class = "DirectionsService"
    /\ last.api_key = KeyNone
    /\ last.sent = <<[Authorization |-> Key("k2")]>>

\* ------------------------------------------------------------------ C28
\* C28: the great-circle distance of a point to itself is 0, and the
\* distance from a to b equals the distance from b to a, for all points
\* with latitude in [-90, 90] and longitude in [-180, 180]; no distance is
\* negative or longer than half the circumference of a sphere of radius
\* 6371 km (20020 km with the slack of the table arithmetic).
C28_SymmetricZeroSelfDistance ==
    last.op = "distances"
    => /\ last.aa = 0
       /\ last.ab = last.ba
       /\ 0 <= last.ab /\ last.ab <= 20020000
       /\ last.a = last.b => last.ab = 0

\* the distance between (40, -83) and (42, -80) was computed in both
\* orders and is about 336 km
C28_Witness ==
    /\ last.op = "distances"
    /\ last.a = <<40, -83>>
    /\ last.b = <<42, -80>>
    /\ last.ab = last.ba
    /\ 330000 <= last.ab /\ last.ab <= 340000
    /\ last.aa = 0

\* ------------------------------------------------------------------ C29
\* the attempt got a 429 the code takes as one
RateLimited(o) == o.kind = "http" /\ ResponseTruthy(o) /\ o.status = 429

UniqueKeys(d) ==
    \A i, j \in Stored(d) :
        (\A key \in RequiredKeys : d[i][key] = d[j][key]) => i = j

\* a step that is the second call of import_church_data with the same list
ReimportStep == LastWas("import_church_data") /\ last'.op = "import_church_data_again"

\* the rows of the list that have a name, street address, city and state
ValidRows(church_data) ==
    { i \in 1..Len(church_data) : ~MissingRequired(church_data[i]) }

\* an import on a table with unique keys leaves the keys unique
ImportKeepsKeysUnique ==
    ((OperationStep("import_church_data") \/ ReimportStep) /\ UniqueKeys(db))
    => UniqueKeys(db')

\* C30 as stated: an import on a table in which no two churches share the
\* key leaves it so; importing the same list a second time creates no
\* church, counts every row with the four required fields as updated, and
\* leaves every stored church, its coordinates and accuracy included, as
\* the first import left it.
C30_ReimportUpdatesEveryValidRow ==
    [][ /\ ImportKeepsKeysUnique
        /\ (ReimportStep /\ UniqueKeys(db))
           => /\ last'.result.created = 0
              /\ last'.result.updated = Cardinality(ValidRows(last'.church_data))
              /\ db' = db ]_vars

\* C30 amended: an import on a table in which no two churches share the key
\* leaves it so; importing the same list a second time creates no church,
\* counts as updated every row the first import created or updated and as
\* failed every row the first import counted failed (a row without a
\* required field, or one validation rejects), and leaves every stored
\* church, its coordinates and accuracy included, as the first import
\* left it.
C30_ReimportChangesNothing ==
    [][ /\ ImportKeepsKeysUnique
        /\ (ReimportStep /\ UniqueKeys(db))
           => /\ last'.result.created = 0
              /\ Len(last'.steps) = Len(last'.first.steps)
              /\ \A i \in 1..Len(last'.steps) :
                    /\ last'.steps[i].outcome # "created"
                    /\ last'.steps[i].outcome = "updated"
                       <=> last'.first.steps[i].outcome \in {"created", "updated"}
                    /\ last'.steps[i].outcome = "failed"
                       <=> (MissingRequired(last'.church_data[i])
                            \/ ~RowValidates(last'.church_data[i]))
              /\ last'.result.updated
                   = last'.first.result.created + last'.first.result.updated
              /\ last'.result.failed = last'.first.result.failed
              /\ db' = db ]_vars

\* a list of two rows was imported twice into a table that held a church
\* with coordinates: the first import updated that church and created
\* another, the second updated both and left the table as it was
C30_Witness ==
    /\ LastWas("import_church_data_again")
    /\ UniqueKeys(last.before)
    /\ last.first.result.created = 1
    /\ last.first.result.updated = 1
    /\ last.result.created = 0
    /\ last.result.updated = 2
    /\ db = last.before
    /\ \E i \in Stored(db) : HasCoordinates(db[i])

\* a row with a zip code of more than 10 characters failed in both imports
C30_RejectedRowSeen ==
    /\ LastWas("import_church_data_again")
    /\ UniqueKeys(last.before)
    /\ \E i \in 1..Len(last.church_data) :
          /\ ~MissingRequired(last.church_data[i])
          /\ ~RowValidates(last.church_data[i])
          /\ last.first.steps[i].outcome = "failed"
          /\ last.steps[i].outcome = "failed"

\* -------------------------------------------------------------- type check
TypeOK == /\ \A key \in CacheKeys : cache[key] = NoEntry \/ IsResult(cache[key])
          /\ \A c \in Callers : call[c].pc \in {"idle", "loop", "done"}

====
